---- MODULE Spec2Model ----
(***************************************************************************)
(* Embedded-script recovery and consolidation of the calendar extraction   *)
(* script (python/fetch/calendar/03_extract_from_document.py).             *)
(*                                                                         *)
(* A text is a sequence of characters, a character is a one-character      *)
(* string.  Positions are 1-based: position p of the model is index p-1    *)
(* of the Python string, and "not found" (-1 in Python) is position 0.     *)
(***************************************************************************)
EXTENDS Integers, Sequences, FiniteSets, TLC

BS == "\\"
DQ == "\""
SQ == "'"
NL == "\n"
TAB == "\t"

Letters ==
  {"a","b","c","d","e","f","g","h","i","j","k","l","m","n","o","p","q","r",
   "s","t","u","v","w","x","y","z","A","B","C","D","E","F","G","H","I","J",
   "K","L","M","N","O","P","Q","R","S","T","U","V","W","X","Y","Z"}

Digits == {"0","1","2","3","4","5","6","7","8","9"}

isalpha(ch) == ch \in Letters
isalnum(ch) == ch \in Letters \cup Digits
isspace(ch) == ch \in {" ", NL, TAB, "\r", "\f"}

\* js.startswith(pat, i-1)
startswith(js, pat, i) ==
  /\ i + Len(pat) - 1 <= Len(js)
  /\ \A n \in 1..Len(pat) : js[i + n - 1] = pat[n]

\* s.find(sub, start-1) + 1
find(s, sub, start) ==
  LET hits == {p \in start..(Len(s) - Len(sub) + 1) : startswith(s, sub, p)}
  IN IF hits = {} THEN 0 ELSE CHOOSE p \in hits : \A q \in hits : p <= q

MARKER ==
  <<"w","i","n","d","o","w",".","c","a","l","e","n","d","a","r","C","o",
   "m","p","o","n","e","n","t","S","t","a","t","e","s","[","1","]"," ","=">>

OBJECT_FREEZE == <<"O","b","j","e","c","t",".","f","r","e","e","z","e","(">>

(***************************************************************************)
(* Every scanning loop of the script is written as a step (one iteration   *)
(* of the loop body, from the loop's variables to their next values) and   *)
(* a loop operator that iterates the step while the loop condition holds.  *)
(* The loop operator runs at most n iterations by running the first half   *)
(* and then the second half; each iteration advances the position, so      *)
(* Len(js) iterations always reach the end of the loop.                    *)
(***************************************************************************)

(***************************************************************************)
(* Pass 1: quote_unquoted_keys                                             *)
(***************************************************************************)
\* the last non-space character emitted so far, "" when there is none
RECURSIVE prev_non_space(_, _)
prev_non_space(out, j) ==
  IF j >= 1 /\ isspace(out[j]) THEN prev_non_space(out, j - 1)
  ELSE IF j >= 1 THEN out[j] ELSE ""

RECURSIVE ident_end(_, _)
ident_end(js, k) ==
  IF k <= Len(js) /\ (isalnum(js[k]) \/ js[k] = "_") THEN ident_end(js, k + 1)
  ELSE k

RECURSIVE skip_space(_, _)
skip_space(js, m) ==
  IF m <= Len(js) /\ isspace(js[m]) THEN skip_space(js, m + 1) ELSE m

\* the state of a pass that tracks one kind of string
ScanStart == [i |-> 1, out |-> <<>>, in_str |-> FALSE, esc |-> FALSE, quote |-> ""]

\* quote_unquoted_keys_step without the look at the previous character
quote_unquoted_keys_step_anywhere(js, st) ==
  LET ch == js[st.i] IN
    IF st.in_str THEN
      [i |-> st.i + 1,
       out |-> Append(st.out, ch),
       in_str |-> IF st.esc THEN TRUE ELSE IF ch = BS THEN TRUE ELSE ch # st.quote,
       esc |-> IF st.esc THEN FALSE ELSE IF ch = BS THEN TRUE ELSE st.esc,
       quote |-> st.quote]
    ELSE IF ch \in {DQ, SQ} THEN
      [st EXCEPT !.i = @ + 1, !.out = Append(@, ch), !.in_str = TRUE, !.quote = ch]
    ELSE
      LET k == ident_end(js, st.i + 1)
          m == skip_space(js, k)
          is_key == /\ isalpha(ch) \/ ch = "_"
                    /\ m <= Len(js)
                    /\ js[m] = ":"
      IN IF is_key
         THEN [st EXCEPT !.i = m + 1,
                         !.out = @ \o <<DQ>> \o SubSeq(js, st.i, k - 1) \o <<DQ, ":">>]
         ELSE [st EXCEPT !.i = @ + 1, !.out = Append(@, ch)]

quote_unquoted_keys_step(js, st) ==
  LET ch == js[st.i] IN
    IF st.in_str THEN
      [i |-> st.i + 1,
       out |-> Append(st.out, ch),
       in_str |-> IF st.esc THEN TRUE ELSE IF ch = BS THEN TRUE ELSE ch # st.quote,
       esc |-> IF st.esc THEN FALSE ELSE IF ch = BS THEN TRUE ELSE st.esc,
       quote |-> st.quote]
    ELSE IF ch \in {DQ, SQ} THEN
      [st EXCEPT !.i = @ + 1, !.out = Append(@, ch), !.in_str = TRUE, !.quote = ch]
    ELSE
      LET k == ident_end(js, st.i + 1)
          m == skip_space(js, k)
          is_key == /\ isalpha(ch) \/ ch = "_"
                    /\ prev_non_space(st.out, Len(st.out)) \in {"{", ","}
                    /\ m <= Len(js)
                    /\ js[m] = ":"
      IN IF is_key
         THEN [st EXCEPT !.i = m + 1,
                         !.out = @ \o <<DQ>> \o SubSeq(js, st.i, k - 1) \o <<DQ, ":">>]
         ELSE [st EXCEPT !.i = @ + 1, !.out = Append(@, ch)]

RECURSIVE quote_unquoted_keys_loop(_, _, _)
quote_unquoted_keys_loop(js, st, n) ==
  IF n = 0 \/ ~(st.i <= Len(js)) THEN st
  ELSE IF n = 1 THEN quote_unquoted_keys_step(js, st)
  ELSE quote_unquoted_keys_loop(js,
         quote_unquoted_keys_loop(js, st, n \div 2), n - (n \div 2))

quote_unquoted_keys(js) ==
  quote_unquoted_keys_loop(js, ScanStart, Len(js)).out

(***************************************************************************)
(* Pass 2: single_quotes_to_double                                         *)
(***************************************************************************)
single_quotes_to_double_step(js, st) ==
  LET ch == js[st.i] IN
    IF st.in_d THEN
      [i |-> st.i + 1,
       out |-> Append(st.out, ch),
       in_d |-> IF st.esc THEN TRUE ELSE IF ch = BS THEN TRUE ELSE ch # DQ,
       in_s |-> st.in_s,
       esc |-> IF st.esc THEN FALSE ELSE IF ch = BS THEN TRUE ELSE st.esc]
    ELSE IF st.in_s THEN
      IF st.esc THEN
        [st EXCEPT !.i = @ + 1, !.out = Append(@, ch), !.esc = FALSE]
      ELSE IF ch = BS THEN
        [st EXCEPT !.i = @ + 1, !.out = Append(@, ch), !.esc = TRUE]
      ELSE IF ch = SQ THEN
        [st EXCEPT !.i = @ + 1, !.out = Append(@, DQ), !.in_s = FALSE]
      ELSE IF ch = DQ THEN
        [st EXCEPT !.i = @ + 1, !.out = @ \o <<BS, DQ>>]
      ELSE
        [st EXCEPT !.i = @ + 1, !.out = Append(@, ch)]
    ELSE IF ch = DQ THEN
      [st EXCEPT !.i = @ + 1, !.out = Append(@, ch), !.in_d = TRUE]
    ELSE IF ch = SQ THEN
      [st EXCEPT !.i = @ + 1, !.out = Append(@, DQ), !.in_s = TRUE]
    ELSE
      [st EXCEPT !.i = @ + 1, !.out = Append(@, ch)]

RECURSIVE single_quotes_to_double_loop(_, _, _)
single_quotes_to_double_loop(js, st, n) ==
  IF n = 0 \/ ~(st.i <= Len(js)) THEN st
  ELSE IF n = 1 THEN single_quotes_to_double_step(js, st)
  ELSE single_quotes_to_double_loop(js,
         single_quotes_to_double_loop(js, st, n \div 2), n - (n \div 2))

single_quotes_to_double(js) ==
  single_quotes_to_double_loop(js,
    [i |-> 1, out |-> <<>>, in_d |-> FALSE, in_s |-> FALSE, esc |-> FALSE],
    Len(js)).out

(***************************************************************************)
(* Pass 3: strip_object_freeze                                             *)
(***************************************************************************)
\* freeze_string_step without the escape flag: every quote closes the string
freeze_string_step_no_escape(js, st) ==
  LET cc == js[st.i] IN
    IF cc = st.q THEN [st EXCEPT !.i = @ + 1, !.out = Append(@, cc), !.closed = TRUE]
    ELSE [st EXCEPT !.i = @ + 1, !.out = Append(@, cc)]

\* the inner "preserve strings inside" loop, lines 270-280; closed is set
\* by the break at the closing quote
freeze_string_step(js, st) ==
  LET cc == js[st.i] IN
    IF st.esc2 THEN [st EXCEPT !.i = @ + 1, !.out = Append(@, cc), !.esc2 = FALSE]
    ELSE IF cc = BS THEN [st EXCEPT !.i = @ + 1, !.out = Append(@, cc), !.esc2 = TRUE]
    ELSE IF cc = st.q THEN [st EXCEPT !.i = @ + 1, !.out = Append(@, cc), !.closed = TRUE]
    ELSE [st EXCEPT !.i = @ + 1, !.out = Append(@, cc)]

RECURSIVE freeze_string_loop(_, _, _)
freeze_string_loop(js, st, n) ==
  IF n = 0 \/ ~(st.i <= Len(js)) \/ st.closed THEN st
  ELSE IF n = 1 THEN freeze_string_step(js, st)
  ELSE freeze_string_loop(js, freeze_string_loop(js, st, n \div 2), n - (n \div 2))

\* freeze_par_step without the branch that preserves strings
freeze_par_step_no_strings(js, st) ==
  LET c == js[st.i] IN
    IF c = "(" THEN
      [st EXCEPT !.i = @ + 1, !.out = Append(@, c), !.par = @ + 1]
    ELSE IF c = ")" THEN
      IF st.par - 1 = 0 THEN [st EXCEPT !.i = @ + 1, !.par = 0]
      ELSE [st EXCEPT !.i = @ + 1, !.out = Append(@, c), !.par = @ - 1]
    ELSE [st EXCEPT !.i = @ + 1, !.out = Append(@, c)]

\* the "while i < len(js) and par > 0" loop over the wrapper's argument,
\* lines 261-295
freeze_par_step(js, st) ==
  LET c == js[st.i] IN
    IF c \in {DQ, SQ} THEN
      LET r == freeze_string_loop(js,
                 [i |-> st.i + 1, out |-> Append(st.out, c), q |-> c,
                  esc2 |-> FALSE, closed |-> FALSE],
                 Len(js))
      IN [st EXCEPT !.i = r.i, !.out = r.out]
    ELSE IF c = "(" THEN
      [st EXCEPT !.i = @ + 1, !.out = Append(@, c), !.par = @ + 1]
    ELSE IF c = ")" THEN
      IF st.par - 1 = 0 THEN [st EXCEPT !.i = @ + 1, !.par = 0]
      ELSE [st EXCEPT !.i = @ + 1, !.out = Append(@, c), !.par = @ - 1]
    ELSE [st EXCEPT !.i = @ + 1, !.out = Append(@, c)]

RECURSIVE freeze_par_loop(_, _, _)
freeze_par_loop(js, st, n) ==
  IF n = 0 \/ ~(st.i <= Len(js) /\ st.par > 0) THEN st
  ELSE IF n = 1 THEN freeze_par_step(js, st)
  ELSE freeze_par_loop(js, freeze_par_loop(js, st, n \div 2), n - (n \div 2))

strip_object_freeze_step(js, st) ==
  LET ch == js[st.i] IN
    IF st.in_str THEN
      [i |-> st.i + 1,
       out |-> Append(st.out, ch),
       in_str |-> IF st.esc THEN TRUE ELSE IF ch = BS THEN TRUE ELSE ch # st.quote,
       esc |-> IF st.esc THEN FALSE ELSE IF ch = BS THEN TRUE ELSE st.esc,
       quote |-> st.quote]
    ELSE IF ch \in {DQ, SQ} THEN
      [st EXCEPT !.i = @ + 1, !.out = Append(@, ch), !.in_str = TRUE, !.quote = ch]
    ELSE IF startswith(js, OBJECT_FREEZE, st.i) THEN
      LET r == freeze_par_loop(js,
                 [i |-> st.i + Len(OBJECT_FREEZE), out |-> st.out, par |-> 1],
                 Len(js))
      IN [st EXCEPT !.i = r.i, !.out = r.out]
    ELSE
      [st EXCEPT !.i = @ + 1, !.out = Append(@, ch)]

RECURSIVE strip_object_freeze_loop(_, _, _)
strip_object_freeze_loop(js, st, n) ==
  IF n = 0 \/ ~(st.i <= Len(js)) THEN st
  ELSE IF n = 1 THEN strip_object_freeze_step(js, st)
  ELSE strip_object_freeze_loop(js,
         strip_object_freeze_loop(js, st, n \div 2), n - (n \div 2))

strip_object_freeze(js) ==
  strip_object_freeze_loop(js, ScanStart, Len(js)).out

(***************************************************************************)
(* Pass 4: remove_trailing_commas                                          *)
(***************************************************************************)
\* remove_trailing_commas_step without the string tracking
remove_trailing_commas_step_in_strings(js, st) ==
  LET ch == js[st.i]
      j == skip_space(js, st.i + 1)
  IN IF ch = "," /\ j <= Len(js) /\ js[j] \in {"}", "]"}
     THEN [st EXCEPT !.i = @ + 1]
     ELSE [st EXCEPT !.i = @ + 1, !.out = Append(@, ch)]

remove_trailing_commas_step(js, st) ==
  LET ch == js[st.i] IN
    IF st.in_str THEN
      [i |-> st.i + 1,
       out |-> Append(st.out, ch),
       in_str |-> IF st.esc THEN TRUE ELSE IF ch = BS THEN TRUE ELSE ch # st.quote,
       esc |-> IF st.esc THEN FALSE ELSE IF ch = BS THEN TRUE ELSE st.esc,
       quote |-> st.quote]
    ELSE IF ch \in {DQ, SQ} THEN
      [st EXCEPT !.i = @ + 1, !.out = Append(@, ch), !.in_str = TRUE, !.quote = ch]
    ELSE
      LET j == skip_space(js, st.i + 1)
      IN IF ch = "," /\ j <= Len(js) /\ js[j] \in {"}", "]"}
         THEN [st EXCEPT !.i = @ + 1]
         ELSE [st EXCEPT !.i = @ + 1, !.out = Append(@, ch)]

RECURSIVE remove_trailing_commas_loop(_, _, _)
remove_trailing_commas_loop(js, st, n) ==
  IF n = 0 \/ ~(st.i <= Len(js)) THEN st
  ELSE IF n = 1 THEN remove_trailing_commas_step(js, st)
  ELSE remove_trailing_commas_loop(js,
         remove_trailing_commas_loop(js, st, n \div 2), n - (n \div 2))

remove_trailing_commas(js) ==
  remove_trailing_commas_loop(js, ScanStart, Len(js)).out

js_object_to_json_text(js_obj) ==
  remove_trailing_commas(
    strip_object_freeze(
      single_quotes_to_double(
        quote_unquoted_keys(js_obj))))

(***************************************************************************)
(* Literal locator: extract_object_literal                                 *)
(***************************************************************************)
Located(text) == [err |-> "", text |-> text]
LocateError(kind) == [err |-> kind, text |-> <<>>]

\* the loop body of lines 74-96 without the quote tracking: every brace counts
extract_step_unquoted(html, st) ==
  LET ch == html[st.k] IN
    IF ch = "{" THEN [st EXCEPT !.k = @ + 1, !.depth = @ + 1]
    ELSE IF ch = "}" THEN
      IF st.depth - 1 = 0 THEN [st EXCEPT !.depth = 0, !.end = st.k]
      ELSE [st EXCEPT !.k = @ + 1, !.depth = @ - 1]
    ELSE [st EXCEPT !.k = @ + 1]

\* the loop body of lines 74-96; end is the position of the '}' at which
\* the function returns, 0 while it has not returned
extract_step(html, st) ==
  LET ch == html[st.k] IN
    IF st.in_str THEN
      [st EXCEPT !.k = @ + 1,
                 !.in_str = IF st.esc THEN TRUE ELSE IF ch = BS THEN TRUE ELSE ch # st.quote,
                 !.esc = IF st.esc THEN FALSE ELSE IF ch = BS THEN TRUE ELSE st.esc]
    ELSE IF ch \in {SQ, DQ} THEN
      [st EXCEPT !.k = @ + 1, !.in_str = TRUE, !.quote = ch]
    ELSE IF ch = "{" THEN [st EXCEPT !.k = @ + 1, !.depth = @ + 1]
    ELSE IF ch = "}" THEN
      IF st.depth - 1 = 0 THEN [st EXCEPT !.depth = 0, !.end = st.k]
      ELSE [st EXCEPT !.k = @ + 1, !.depth = @ - 1]
    ELSE [st EXCEPT !.k = @ + 1]

RECURSIVE extract_loop(_, _, _)
extract_loop(html, st, n) ==
  IF n = 0 \/ ~(st.k <= Len(html)) \/ st.end # 0 THEN st
  ELSE IF n = 1 THEN extract_step(html, st)
  ELSE extract_loop(html, extract_loop(html, st, n \div 2), n - (n \div 2))

extract_object_literal(html, marker) ==
  LET i == find(html, marker, 1)
      j == find(html, <<"{">>, i)
      st == extract_loop(html,
              [k |-> j, in_str |-> FALSE, esc |-> FALSE, quote |-> "",
               depth |-> 0, end |-> 0],
              Len(html))
  IN IF i = 0 THEN LocateError("MarkerNotFound")
     ELSE IF j = 0 THEN LocateError("ObjectStartNotFound")
     ELSE IF st.end # 0 THEN Located(SubSeq(html, j, st.end))
     ELSE LocateError("UnbalancedLiteral")

(***************************************************************************)
(* Strict decoder: json.loads.  A decoded value is a record                *)
(*   [t, n, s, k]: t the type, n the number (int, bool), s the characters  *)
(*   (str; the literal of a float), k the members (dict: key and value,    *)
(*   list: value under the empty key), in insertion order.                 *)
(***************************************************************************)
mk(t, n, s, k) == [t |-> t, n |-> n, s |-> s, k |-> k]
None == mk("null", 0, <<>>, <<>>)
VBool(b) == mk("bool", IF b THEN 1 ELSE 0, <<>>, <<>>)
VInt(n) == mk("int", n, <<>>, <<>>)
VFloat(lit) == mk("float", 0, lit, <<>>)
VStr(s) == mk("str", 0, s, <<>>)
VList(k) == mk("list", 0, <<>>, k)
VDict(k) == mk("dict", 0, <<>>, k)
Item(key, val) == [key |-> key, val |-> val]

JSON_WS == {" ", TAB, NL, "\r"}
HexDigits == Digits \cup {"a","b","c","d","e","f","A","B","C","D","E","F"}
\* characters below U+0020, rejected inside a string by the strict scanner
ControlChars == {NL, TAB, "\r", "\f", "\\b"}

Decoded(val, i) == [ok |-> TRUE, val |-> val, i |-> i]
DecodeError == [ok |-> FALSE, val |-> None, i |-> 0]

RECURSIVE json_ws_end(_, _)
json_ws_end(s, i) ==
  IF i <= Len(s) /\ s[i] \in JSON_WS THEN json_ws_end(s, i + 1) ELSE i

\* json.decoder.BACKSLASH
BACKSLASH(e) ==
  CASE e = DQ -> DQ
    [] e = BS -> BS
    [] e = "/" -> "/"
    [] e = "b" -> "\\b"
    [] e = "f" -> "\f"
    [] e = "n" -> NL
    [] e = "r" -> "\r"
    [] e = "t" -> TAB

\* json.decoder.py_scanstring, strict; i is the position after the opening
\* quote.  A \uXXXX escape decodes to one code point, written here as the
\* five characters <<"\\u", X, X, X, X>> (surrogate pairs are not modelled).
RECURSIVE scanstring(_, _, _)
scanstring(s, i, acc) ==
  IF i > Len(s) THEN DecodeError
  ELSE LET ch == s[i] IN
    IF ch = DQ THEN Decoded(VStr(acc), i + 1)
    ELSE IF ch = BS THEN
      IF i + 1 > Len(s) THEN DecodeError
      ELSE IF s[i + 1] \in {DQ, BS, "/", "b", "f", "n", "r", "t"}
        THEN scanstring(s, i + 2, Append(acc, BACKSLASH(s[i + 1])))
      ELSE IF /\ s[i + 1] = "u"
              /\ i + 5 <= Len(s)
              /\ \A n \in 2..5 : s[i + n] \in HexDigits
        THEN scanstring(s, i + 6, acc \o <<"\\u">> \o SubSeq(s, i + 2, i + 5))
      ELSE DecodeError
    ELSE IF ch \in ControlChars THEN DecodeError
    ELSE scanstring(s, i + 1, Append(acc, ch))

RECURSIVE digits_end(_, _)
digits_end(s, i) ==
  IF i <= Len(s) /\ s[i] \in Digits THEN digits_end(s, i + 1) ELSE i

DigitSeq == <<"0","1","2","3","4","5","6","7","8","9">>
digit_val(c) == (CHOOSE n \in 1..10 : DigitSeq[n] = c) - 1

RECURSIVE int_val(_, _, _, _)
int_val(s, i, e, acc) ==
  IF i >= e THEN acc ELSE int_val(s, i + 1, e, acc * 10 + digit_val(s[i]))

\* json.scanner.NUMBER_RE matched at i:
\*   (-?(?:0|[1-9]\d*))(\.\d+)?([eE][-+]?\d+)?
match_number(s, i) ==
  LET neg == i <= Len(s) /\ s[i] = "-"
      p == IF neg THEN i + 1 ELSE i
      has_int == p <= Len(s) /\ s[p] \in Digits
      ie == IF s[p] = "0" THEN p + 1 ELSE digits_end(s, p)
      has_frac == /\ ie + 1 <= Len(s)
                  /\ s[ie] = "."
                  /\ s[ie + 1] \in Digits
      fe == IF has_frac THEN digits_end(s, ie + 1) ELSE ie
      sp == IF fe + 1 <= Len(s) /\ s[fe + 1] \in {"-", "+"} THEN fe + 2 ELSE fe + 1
      has_exp == /\ fe <= Len(s)
                 /\ s[fe] \in {"e", "E"}
                 /\ sp <= Len(s)
                 /\ s[sp] \in Digits
      ee == IF has_exp THEN digits_end(s, sp) ELSE fe
  IN IF ~has_int THEN DecodeError
     ELSE IF has_frac \/ has_exp THEN Decoded(VFloat(SubSeq(s, i, ee - 1)), ee)
     ELSE Decoded(VInt((IF neg THEN -1 ELSE 1) * int_val(s, p, ie, 0)), ie)

NULL_LIT == <<"n","u","l","l">>
TRUE_LIT == <<"t","r","u","e">>
FALSE_LIT == <<"f","a","l","s","e">>
NAN_LIT == <<"N","a","N">>
INF_LIT == <<"I","n","f","i","n","i","t","y">>
NEG_INF_LIT == <<"-","I","n","f","i","n","i","t","y">>

\* dict(pairs): a repeated key keeps its first position and takes the last value
dict_set(k, key, val) ==
  IF \E n \in 1..Len(k) : k[n].key = key
  THEN [n \in 1..Len(k) |-> IF k[n].key = key THEN Item(key, val) ELSE k[n]]
  ELSE Append(k, Item(key, val))

RECURSIVE scan_once(_, _)
RECURSIVE JSONObject(_, _, _)
RECURSIVE JSONArray(_, _, _)

\* json.scanner.py_make_scanner._scan_once
scan_once(s, i) ==
  IF i > Len(s) THEN DecodeError
  ELSE IF s[i] = DQ THEN scanstring(s, i + 1, <<>>)
  ELSE IF s[i] = "{" THEN
    LET e == json_ws_end(s, i + 1)
    IN IF e <= Len(s) /\ s[e] = "}" THEN Decoded(VDict(<<>>), e + 1)
       ELSE IF e <= Len(s) /\ s[e] = DQ THEN JSONObject(s, e + 1, <<>>)
       ELSE DecodeError
  ELSE IF s[i] = "[" THEN
    LET e == json_ws_end(s, i + 1)
    IN IF e <= Len(s) /\ s[e] = "]" THEN Decoded(VList(<<>>), e + 1)
       ELSE JSONArray(s, e, <<>>)
  ELSE IF startswith(s, NULL_LIT, i) THEN Decoded(None, i + 4)
  ELSE IF startswith(s, TRUE_LIT, i) THEN Decoded(VBool(TRUE), i + 4)
  ELSE IF startswith(s, FALSE_LIT, i) THEN Decoded(VBool(FALSE), i + 5)
  ELSE IF match_number(s, i).ok THEN match_number(s, i)
  ELSE IF startswith(s, NAN_LIT, i) THEN Decoded(VFloat(NAN_LIT), i + 3)
  ELSE IF startswith(s, INF_LIT, i) THEN Decoded(VFloat(INF_LIT), i + 8)
  ELSE IF startswith(s, NEG_INF_LIT, i) THEN Decoded(VFloat(NEG_INF_LIT), i + 9)
  ELSE DecodeError

\* json.decoder.JSONObject, from the position after a key's opening quote
JSONObject(s, i, pairs) ==
  LET key == scanstring(s, i, <<>>)
      c == json_ws_end(s, key.i)
      v == scan_once(s, json_ws_end(s, c + 1))
      e == json_ws_end(s, v.i)
      q == json_ws_end(s, e + 1)
  IN IF ~key.ok THEN DecodeError
     ELSE IF ~(c <= Len(s) /\ s[c] = ":") THEN DecodeError
     ELSE IF ~v.ok THEN DecodeError
     ELSE IF e > Len(s) THEN DecodeError
     ELSE IF s[e] = "}" THEN Decoded(VDict(dict_set(pairs, key.val.s, v.val)), e + 1)
     ELSE IF s[e] # "," THEN DecodeError
     ELSE IF ~(q <= Len(s) /\ s[q] = DQ) THEN DecodeError
     ELSE JSONObject(s, q + 1, dict_set(pairs, key.val.s, v.val))

\* json.decoder.JSONArray, from the position of an element
JSONArray(s, i, values) ==
  LET v == scan_once(s, i)
      e == json_ws_end(s, v.i)
  IN IF ~v.ok THEN DecodeError
     ELSE IF e > Len(s) THEN DecodeError
     ELSE IF s[e] = "]" THEN Decoded(VList(Append(values, Item(<<>>, v.val))), e + 1)
     ELSE IF s[e] # "," THEN DecodeError
     ELSE JSONArray(s, json_ws_end(s, e + 1), Append(values, Item(<<>>, v.val)))

\* json.loads: one value, surrounded by whitespace only
json_loads(s) ==
  LET v == scan_once(s, json_ws_end(s, 1))
  IN IF v.ok /\ json_ws_end(s, v.i) = Len(s) + 1 THEN v ELSE DecodeError

(***************************************************************************)
(* Records.  A row (a Python dict of the store) is a function from field   *)
(* names to decoded values.  Of the fields that main copies verbatim from  *)
(* an event, currency, name, actual and forecast are kept; country,        *)
(* timeLabel, prefixedName, previous, revision, url and soloUrl are copied *)
(* the same way and left out, and so is datetime_bkk, which is a function  *)
(* of dateline_epoch alone.                                                *)
(***************************************************************************)
\* row.get(field)
get(row, field) == IF field \in DOMAIN row THEN row[field] ELSE None

\* isinstance(v, int): True for a bool as well
isinstance_int(v) == v.t \in {"int", "bool"}

NoKey == <<>>

\* merge_events.key_of
key_of(row) ==
  LET event_id == get(row, "event_id")
      epoch == get(row, "dateline_epoch")
  IN IF isinstance_int(event_id) /\ isinstance_int(epoch)
     THEN <<event_id.n, epoch.n>> ELSE NoKey

\* value not in (None, "")
provided(value) == ~(value.t = "null" \/ (value.t = "str" /\ value.s = <<>>))

\* d[key] = row for the insertion-ordered dict merged
merged_put(merged, key, row) ==
  IF \E n \in 1..Len(merged) : merged[n].key = key
  THEN [n \in 1..Len(merged) |->
          IF merged[n].key = key THEN [key |-> key, row |-> row] ELSE merged[n]]
  ELSE Append(merged, [key |-> key, row |-> row])

merged_get(merged, key) ==
  merged[CHOOSE n \in 1..Len(merged) : merged[n].key = key].row

\* lines 416-424: the fields of row that are provided overwrite merged_row
merge_row(merged_row, row) ==
  LET written == {f \in DOMAIN row : provided(row[f])}
  IN [f \in DOMAIN merged_row \cup written |->
        IF f \in written THEN row[f] ELSE merged_row[f]]

RECURSIVE merge_existing(_, _)
merge_existing(merged, existing) ==
  IF existing = <<>> THEN merged
  ELSE merge_existing(
         IF key_of(Head(existing)) # NoKey
         THEN merged_put(merged, key_of(Head(existing)), Head(existing))
         ELSE merged,
         Tail(existing))

RECURSIVE merge_incoming(_, _)
merge_incoming(merged, incoming) ==
  IF incoming = <<>> THEN merged
  ELSE LET row == Head(incoming)
           key == key_of(row)
       IN merge_incoming(
            IF key = NoKey THEN merged
            ELSE IF ~\E n \in 1..Len(merged) : merged[n].key = key
              THEN merged_put(merged, key, row)
            ELSE merged_put(merged, key, merge_row(merged_get(merged, key), row)),
            Tail(incoming))

\* the same lists joined, nothing merged
merge_events_concat(existing, incoming) == existing \o incoming

merge_events(existing, incoming) ==
  LET merged == merge_incoming(merge_existing(<<>>, existing), incoming)
  IN [n \in 1..Len(merged) |-> merged[n].row]

\* a sort key that orders by epoch alone
sort_key_epoch_only(row) ==
  LET epoch == get(row, "dateline_epoch")
  IN <<-(IF isinstance_int(epoch) THEN epoch.n ELSE -1), 0>>

\* sort_events_desc.sort_key
sort_key(row) ==
  LET epoch == get(row, "dateline_epoch")
      event_id == get(row, "event_id")
      epoch_val == IF isinstance_int(epoch) THEN epoch.n ELSE -1
      event_val == IF isinstance_int(event_id) THEN event_id.n ELSE -1
  IN <<-epoch_val, -event_val>>

\* tuple comparison a <= b of two sort keys
key_le(a, b) == a[1] < b[1] \/ (a[1] = b[1] /\ a[2] <= b[2])

\* sorted(rows, key=sort_key): stable, so a row goes after every row
\* already placed whose key is not greater
RECURSIVE sorted_insert(_, _)
sorted_insert(done, row) ==
  IF done = <<>> THEN <<row>>
  ELSE IF key_le(sort_key(Head(done)), sort_key(row))
    THEN <<Head(done)>> \o sorted_insert(Tail(done), row)
  ELSE <<row>> \o done

RECURSIVE sorted_from(_, _)
sorted_from(done, rows) ==
  IF rows = <<>> THEN done
  ELSE sorted_from(sorted_insert(done, Head(rows)), Tail(rows))

sort_events_desc(rows) == sorted_from(<<>>, rows)

(***************************************************************************)
(* Flattener: main, lines 458-498                                          *)
(***************************************************************************)
K_days == <<"d","a","y","s">>
K_date == <<"d","a","t","e">>
K_events == <<"e","v","e","n","t","s">>
K_id == <<"i","d">>
K_dateline == <<"d","a","t","e","l","i","n","e">>
K_impactName == <<"i","m","p","a","c","t","N","a","m","e">>
K_currency == <<"c","u","r","r","e","n","c","y">>
K_name == <<"n","a","m","e">>
K_actual == <<"a","c","t","u","a","l">>
K_forecast == <<"f","o","r","e","c","a","s","t">>

has_key(d, key) == \E n \in 1..Len(d.k) : d.k[n].key = key

\* d.get(key, default)
dict_get(d, key, default) ==
  IF has_key(d, key)
  THEN d.k[CHOOSE n \in 1..Len(d.k) : d.k[n].key = key].val
  ELSE default

\* bool(v)
truthy(v) ==
  CASE v.t = "null" -> FALSE
    [] v.t \in {"bool", "int"} -> v.n # 0
    [] v.t = "float" ->
         \E n \in 1..Len(v.s) :
           /\ v.s[n] \in Digits \ {"0"}
           /\ \A m \in 1..n : v.s[m] \notin {"e", "E"}
    [] v.t = "str" -> v.s # <<>>
    [] OTHER -> v.k # <<>>

\* what "for x in v" iterates over: the elements of a list, the characters
\* of a str, the keys of a dict; anything else raises TypeError
iterable(v) == v.t \in {"list", "str", "dict"}
iter_items(v) ==
  CASE v.t = "list" -> [n \in 1..Len(v.k) |-> v.k[n].val]
    [] v.t = "str" -> [n \in 1..Len(v.s) |-> VStr(<<v.s[n]>>)]
    [] v.t = "dict" -> [n \in 1..Len(v.k) |-> VStr(v.k[n].key)]

UpperSeq == 
  <<"A","B","C","D","E","F","G","H","I","J","K","L","M","N","O","P","Q","R","S","T","U","V","W","X","Y","Z">>
LowerSeq == 
  <<"a","b","c","d","e","f","g","h","i","j","k","l","m","n","o","p","q","r","s","t","u","v","w","x","y","z">>
lower_char(c) ==
  IF \E n \in 1..26 : UpperSeq[n] = c
  THEN LowerSeq[CHOOSE n \in 1..26 : UpperSeq[n] = c] ELSE c
lower(s) == [n \in 1..Len(s) |-> lower_char(s[n])]

\* s.strip()
strip(s) ==
  LET kept == {n \in 1..Len(s) : ~isspace(s[n])}
  IN IF kept = {} THEN <<>>
     ELSE SubSeq(s, CHOOSE n \in kept : \A m \in kept : n <= m,
                    CHOOSE n \in kept : \A m \in kept : m <= n)

\* re.sub(r"<.*?>", "", s): a '<' and the text up to the next '>' on the
\* same line are dropped
RECURSIVE tag_end(_, _)
tag_end(s, i) ==
  IF i > Len(s) \/ s[i] = NL THEN 0
  ELSE IF s[i] = ">" THEN i
  ELSE tag_end(s, i + 1)

RECURSIVE strip_html_tags(_)
strip_html_tags(s) ==
  IF s = <<>> THEN <<>>
  ELSE IF s[1] = "<" /\ tag_end(s, 2) # 0
    THEN strip_html_tags(SubSeq(s, tag_end(s, 2) + 1, Len(s)))
  ELSE <<s[1]>> \o strip_html_tags(Tail(s))

IMPACT_HIGH == <<"h","i","g","h">>
IMPACT_MEDIUM == <<"m","e","d","i","u","m">>
IMPACT_LOW == <<"l","o","w">>
\* IMPACT_SCORE.get(impact, 0)
impact_score_of(impact) ==
  IF impact = IMPACT_HIGH THEN 3
  ELSE IF impact = IMPACT_MEDIUM THEN 2
  ELSE IF impact = IMPACT_LOW THEN 1
  ELSE 0

Flat(rows, seen) == [ok |-> TRUE, rows |-> rows, seen |-> seen]
FlattenError == [ok |-> FALSE, rows |-> <<>>, seen |-> {}]

\* the body of "for ev in day.get('events', [])" over the events left
RECURSIVE flatten_events(_, _, _, _)
flatten_events(events, day_label, rows, seen) ==
  IF events = <<>> THEN Flat(rows, seen)
  ELSE LET ev == Head(events)
           event_id == dict_get(ev, K_id, None)
           epoch == dict_get(ev, K_dateline, None)
           pk == <<event_id.n, epoch.n>>
           impactName == dict_get(ev, K_impactName, None)
           impact == IF truthy(impactName) THEN strip(lower(impactName.s)) ELSE <<>>
       IN IF ev.t # "dict" THEN FlattenError
          ELSE IF ~isinstance_int(event_id) \/ ~isinstance_int(epoch)
            THEN flatten_events(Tail(events), day_label, rows, seen)
          ELSE IF pk \in seen
            THEN flatten_events(Tail(events), day_label, rows, seen)
          ELSE IF truthy(impactName) /\ impactName.t # "str" THEN FlattenError
          ELSE flatten_events(Tail(events), day_label,
                 Append(rows,
                   [day_label |-> VStr(day_label),
                    event_id |-> event_id,
                    dateline_epoch |-> epoch,
                    currency |-> dict_get(ev, K_currency, None),
                    impact |-> VStr(impact),
                    impact_score |-> VInt(impact_score_of(impact)),
                    name |-> dict_get(ev, K_name, None),
                    actual |-> dict_get(ev, K_actual, None),
                    forecast |-> dict_get(ev, K_forecast, None)]),
                 seen \cup {pk})

\* the body of "for day in data.get('days', [])" over the days left
RECURSIVE flatten_days(_, _, _)
flatten_days(days, rows, seen) ==
  IF days = <<>> THEN Flat(rows, seen)
  ELSE LET day == Head(days)
           date == dict_get(day, K_date, VStr(<<>>))
           events == dict_get(day, K_events, VList(<<>>))
           r == flatten_events(iter_items(events),
                  IF truthy(date) THEN strip_html_tags(date.s) ELSE <<>>,
                  rows, seen)
       IN IF day.t # "dict" THEN FlattenError
          ELSE IF truthy(date) /\ date.t # "str" THEN FlattenError
          ELSE IF ~iterable(events) THEN FlattenError
          ELSE IF ~r.ok THEN FlattenError
          ELSE flatten_days(Tail(days), r.rows, r.seen)

flatten(data) ==
  LET days == dict_get(data, K_days, VList(<<>>))
  IN IF data.t # "dict" \/ ~iterable(days) THEN FlattenError
     ELSE flatten_days(iter_items(days), <<>>, {})

(***************************************************************************)
(* Files.  The store file holds "list" (a JSON list of rows), "other" (any *)
(* other JSON value), "partial" (a proper, non-empty prefix of a JSON      *)
(* text) or "empty" (no bytes); only "list" has rows.                      *)
(***************************************************************************)
NoFile == [exists |-> FALSE, kind |-> "none", rows |-> <<>>]
StoreFile(rows) == [exists |-> TRUE, kind |-> "list", rows |-> rows]
BrokenFile(kind) == [exists |-> TRUE, kind |-> kind, rows |-> <<>>]

load_existing_events(file) ==
  IF ~file.exists THEN <<>>
  ELSE IF file.kind = "list" THEN file.rows
  ELSE <<>>

(***************************************************************************)
(* State                                                                   *)
(***************************************************************************)
VARIABLES
  norm_in,          \* a text handed to js_object_to_json_text
  norm_once,        \* the normalizer's output
  norm_twice,       \* the normalizer's output on its own output
  norm_pc,          \* "input", "once", "twice"
  tree,             \* the value a document was serialized from, or NoTree
  in_html_exists,   \* IN_HTML.exists()
  html,             \* main: the document text
  marker,           \* the marker handed to extract_object_literal
  js_obj,           \* main: result of extract_object_literal
  json_text,        \* main: result of js_object_to_json_text
  data,             \* main: result of json.loads
  flat,             \* main: rows as the flattener left them (line 498)
  existing_rows,    \* main: existing_rows
  rows,             \* main: rows
  pc,               \* the statement the script executes next
  err,              \* the kind of the exception raised, "" if none
  out_events_json,  \* the file OUT_EVENTS_JSON, the persisted store
  out_events_csv,   \* the file OUT_EVENTS_CSV
  out_meta,         \* the file OUT_META
  out_err,          \* the file OUT_ERR
  before,           \* the three output files as the run found them
  last_nonblank,    \* per key and field, the last non-blank incoming value
  stdin,            \* what input() finds: "line" or "eof"
  exit_code,        \* the exit status of the script's process
  caller,           \* who runs the script as a step
  step_result,      \* what the caller's run_step observes
  runs,             \* how many times the script has been started
  visited,          \* the positions a scanning loop has read, each with the
                    \* loop's string state on arriving there
  in_events,        \* 30_refresh_actuals: the file IN_EVENTS
  out_merged,       \* 30_refresh_actuals: the file OUT_MERGED
  refresh_out,      \* 30_refresh_actuals: the history files, events_after.json,
                    \* OUT_META and OUT_ERR
  refresh_args,     \* 30_refresh_actuals.main: args
  refresh_before,   \* 30_refresh_actuals.main: before
  refresh_after,    \* 30_refresh_actuals.main: after
  refresh_merged,   \* 30_refresh_actuals.main: merged
  refresh_stats,    \* 30_refresh_actuals.main: stats, step02_ok and step03_ok,
                    \* with the exception raised and the exit status
  refresh_pc,       \* the statement 30_refresh_actuals executes next
  risk_out,         \* 20_make_risk_windows: the files OUT_WINDOWS, OUT_META and
                    \* OUT_ERR
  risk_pc,          \* the statement 20_make_risk_windows executes next
  pipe_cfg,         \* pipeline: the file CONFIG_PATH
  pipe,             \* pipeline.main: steps, results, error_message, the step
                    \* the loop is at, the statement executed next, the status
                    \* reported and the exit status
  pipe_ran,         \* the step processes run_step has started, each with how
                    \* it ended
  retry_fn,         \* retry: what the successive calls of fn do
  retry_state       \* retry: attempts, i, last_err, the calls and sleeps made,
                    \* the statement executed next and the outcome

normVars == <<norm_in, norm_once, norm_twice, norm_pc>>
docVars == <<tree, in_html_exists, html, marker>>
localVars == <<js_obj, json_text, data, flat, existing_rows, rows>>
fileVars == <<out_events_json, out_events_csv, out_meta, out_err>>
envVars == <<before, stdin, caller, step_result, runs>>
refreshVars == <<in_events, out_merged, refresh_out, refresh_args, refresh_before,
                 refresh_after, refresh_merged, refresh_stats, refresh_pc>>
riskVars == <<risk_out, risk_pc>>
pipeVars == <<pipe_cfg, pipe, pipe_ran>>
retryVars == <<retry_fn, retry_state>>
scanSide == <<refreshVars, riskVars, pipeVars, retryVars>>
refreshSide == <<visited, riskVars, pipeVars, retryVars>>
riskSide == <<visited, refreshVars, pipeVars, retryVars>>
pipeSide == <<visited, refreshVars, riskVars, retryVars>>
retrySide == <<visited, refreshVars, riskVars, pipeVars>>
sideVars == <<visited, refreshVars, riskVars, pipeVars, retryVars>>
vars == <<norm_in, norm_once, norm_twice, norm_pc, tree, in_html_exists, html, marker,
          js_obj, json_text, data, flat, existing_rows, rows, pc, err,
          out_events_json, out_events_csv, out_meta, out_err, before,
          last_nonblank, stdin, exit_code, caller, step_result, runs, visited,
          in_events, out_merged, refresh_out, refresh_args, refresh_before,
          refresh_after, refresh_merged, refresh_stats, refresh_pc,
          risk_out, risk_pc, pipe_cfg, pipe, pipe_ran, retry_fn, retry_state>>

NoTree == mk("none", 0, <<>>, <<>>)

RECURSIVE Concats(_, _)
Concats(F, n) ==
  IF n = 0 THEN {<<>>}
  ELSE LET P == Concats(F, n - 1) IN P \cup {p \o f : p \in P, f \in F}

NormIdle ==
  /\ norm_in = <<>>
  /\ norm_once = <<>>
  /\ norm_twice = <<>>
  /\ norm_pc = "idle"

LocalsFresh ==
  /\ js_obj = LocateError("")
  /\ json_text = <<>>
  /\ data = DecodeError
  /\ flat = <<>>
  /\ existing_rows = <<>>
  /\ rows = <<>>
  /\ err = ""
  /\ exit_code = 0

Snapshot == [json |-> out_events_json, csv |-> out_events_csv, meta |-> out_meta]

NoOutputs ==
  /\ out_events_json = NoFile
  /\ out_events_csv = NoFile
  /\ out_meta = [exists |-> FALSE, events_count |-> 0]
  /\ out_err = [exists |-> FALSE, trace |-> ""]

NoStats ==
  [matched |-> 0, added |-> 0, updated_any_field |-> 0, updated_actual |-> 0,
   newly_released_actual |-> 0]

NoRefreshOut ==
  [events_before |-> NoFile, events_after |-> NoFile, kept_after |-> NoFile,
   meta |-> [exists |-> FALSE], err |-> [exists |-> FALSE, trace |-> ""]]

RefreshLocalsFresh ==
  /\ refresh_before = <<>>
  /\ refresh_after = <<>>
  /\ refresh_merged = <<>>
  /\ refresh_stats = [step02_ok |-> FALSE, step03_ok |-> FALSE, merge |-> NoStats,
                      err |-> "", exit_code |-> 0]

RefreshIdle ==
  /\ in_events = NoFile
  /\ out_merged = NoFile
  /\ refresh_out = NoRefreshOut
  /\ refresh_args = [keep_after |-> FALSE, overwrite_events |-> FALSE]
  /\ RefreshLocalsFresh
  /\ refresh_pc = "idle"

NoRiskOut ==
  [windows |-> [exists |-> FALSE, windows |-> <<>>],
   meta |-> [exists |-> FALSE, events_in |-> 0, events_filtered |-> 0,
             windows_raw |-> 0, windows_output |-> 0],
   err |-> [exists |-> FALSE, trace |-> ""]]

RiskIdle == risk_out = NoRiskOut /\ risk_pc = "idle"

NoConfig == [exists |-> FALSE, steps |-> <<>>]

PipeFresh ==
  [steps |-> <<>>, results |-> <<>>, error_message |-> FALSE, at |-> 1,
   pc |-> "idle", status |-> "", exit_code |-> 0]

PipeIdle == pipe_cfg = NoConfig /\ pipe = PipeFresh /\ pipe_ran = <<>>

\* what a call gives or leaves: kind "value" or "error" with the number of the
\* call, Python's None, the TypeError of the interpreter, or nothing yet
Outcome(kind, n) == [kind |-> kind, n |-> n]

RetryFresh ==
  [attempts |-> 0, sleep_seconds |-> 0, i |-> 0, last_err |-> Outcome("None", 0),
   calls |-> 0, sleeps |-> <<>>, pc |-> "idle", returned |-> Outcome("", 0),
   raised |-> Outcome("", 0)]

RetryIdle == retry_fn = <<>> /\ retry_state = RetryFresh

ScanSideIdle == RefreshIdle /\ RiskIdle /\ PipeIdle /\ RetryIdle
RefreshSideIdle == visited = {} /\ RiskIdle /\ PipeIdle /\ RetryIdle
RiskSideIdle == visited = {} /\ RefreshIdle /\ PipeIdle /\ RetryIdle
PipeSideIdle == visited = {} /\ RefreshIdle /\ RiskIdle /\ RetryIdle
RetrySideIdle == visited = {} /\ RefreshIdle /\ RiskIdle /\ PipeIdle
SideIdle == visited = {} /\ RefreshIdle /\ RiskIdle /\ PipeIdle /\ RetryIdle

DocIdle ==
  /\ tree = NoTree
  /\ in_html_exists = FALSE
  /\ html = <<>>
  /\ marker = MARKER

RunIdle ==
  /\ LocalsFresh
  /\ NoOutputs
  /\ before = Snapshot
  /\ last_nonblank = <<>>
  /\ stdin = "eof"
  /\ caller = "none"
  /\ step_result = "running"
  /\ runs = 1

ScriptIdle == DocIdle /\ RunIdle /\ pc = "idle"

(***************************************************************************)
(* The normalizer as a pure function of an arbitrary text                  *)
(***************************************************************************)
MaxNormFrags == 3

NormFrags ==
  {OBJECT_FREEZE, <<")">>, <<"{">>, <<"}">>, <<"]">>, <<",">>, <<":">>,
   <<SQ>>, <<DQ>>, <<BS>>, <<"a">>, <<" ">>}

InitNormalizer ==
  /\ norm_in \in Concats(NormFrags, MaxNormFrags)
  /\ norm_once = <<>>
  /\ norm_twice = <<>>
  /\ norm_pc = "input"
  /\ ScriptIdle
  /\ SideIdle

NormalizeOnce ==
  /\ norm_pc = "input"
  /\ norm_once' = js_object_to_json_text(norm_in)
  /\ norm_pc' = "once"
  /\ UNCHANGED <<sideVars, norm_in, norm_twice, docVars, localVars, pc, err, fileVars,
                 envVars, last_nonblank, exit_code>>

NormalizeTwice ==
  /\ norm_pc = "once"
  /\ norm_twice' = js_object_to_json_text(norm_once)
  /\ norm_pc' = "twice"
  /\ UNCHANGED <<sideVars, norm_in, norm_once, docVars, localVars, pc, err, fileVars,
                 envVars, last_nonblank, exit_code>>

NextNormalizer == NormalizeOnce \/ NormalizeTwice

SpecNormalizer == InitNormalizer /\ [][NextNormalizer]_vars

(***************************************************************************)
(* Documents.  A well-formed value is written as a JavaScript literal the  *)
(* way the page does: unquoted keys, single-quoted strings in which the    *)
(* quote and the backslash are backslash-escaped, a trailing comma after   *)
(* every member, the whole literal wrapped in a call.                      *)
(***************************************************************************)
MaxStrLen == 2
MaxDocFrags == 5

RECURSIVE digits_of(_)
digits_of(n) ==
  IF n < 10 THEN <<DigitSeq[n + 1]>>
  ELSE digits_of(n \div 10) \o <<DigitSeq[(n % 10) + 1]>>

RECURSIVE js_escape(_)
js_escape(s) ==
  IF s = <<>> THEN <<>>
  ELSE (CASE Head(s) = BS -> <<BS, BS>>
          [] Head(s) = SQ -> <<BS, SQ>>
          [] Head(s) = NL -> <<BS, "n">>
          [] OTHER -> <<Head(s)>>) \o js_escape(Tail(s))

RECURSIVE js_literal(_)
RECURSIVE js_members(_, _)
js_literal(v) ==
  CASE v.t = "null" -> NULL_LIT
    [] v.t = "bool" -> IF v.n = 1 THEN TRUE_LIT ELSE FALSE_LIT
    [] v.t = "int" -> IF v.n < 0 THEN <<"-">> \o digits_of(-v.n) ELSE digits_of(v.n)
    [] v.t = "str" -> <<SQ>> \o js_escape(v.s) \o <<SQ>>
    [] v.t = "list" -> <<"[">> \o js_members(v.k, FALSE) \o <<"]">>
    [] v.t = "dict" -> <<"{">> \o js_members(v.k, TRUE) \o <<"}">>

js_members(k, keyed) ==
  IF k = <<>> THEN <<>>
  ELSE (IF keyed THEN Head(k).key \o <<":">> ELSE <<>>)
         \o js_literal(Head(k).val) \o <<",">> \o js_members(Tail(k), keyed)

document_of(v) ==
  MARKER \o <<" ">> \o OBJECT_FREEZE \o js_literal(v) \o <<")", ";">>

StrChars == {"a", SQ, DQ, BS, "}", ","}
StrContents == Concats({<<c>> : c \in StrChars}, MaxStrLen)
Scalars == {None, VBool(TRUE), VBool(FALSE), VInt(0), VInt(17), VInt(-3)}
             \cup {VStr(s) : s \in StrContents}
SmallValues == {None, VInt(17), VStr(<<"a", DQ>>), VStr(<<"}">>)}
Compounds ==
  {VList(<<>>), VDict(<<>>)}
    \cup {VList(<<Item(<<>>, x), Item(<<>>, y)>>) : x, y \in SmallValues}
    \cup {VDict(<<Item(<<"b", "1">>, x)>>) : x \in SmallValues}
    \cup {VList(<<Item(<<>>, VDict(<<Item(<<"_", "k">>, x)>>))>>) : x \in SmallValues}
Trees ==
  {VDict(<<Item(<<"a">>, v)>>) : v \in Scalars \cup Compounds}
    \cup {VDict(<<Item(<<"a">>, x), Item(<<"b", "1">>, y)>>) :
            x \in SmallValues, y \in SmallValues \cup Compounds}

LocFrags == {<<"{">>, <<"}">>, <<SQ>>, <<DQ>>, <<BS>>, <<"a">>}
LocatorDocs == {MARKER \o f : f \in Concats(LocFrags, MaxDocFrags)}

(***************************************************************************)
(* main, lines 452-455: locate, normalize, decode                          *)
(***************************************************************************)
InitPipeline ==
  /\ \/ /\ tree \in Trees
        /\ html = document_of(tree)
     \/ /\ tree = NoTree
        /\ html \in LocatorDocs
  /\ in_html_exists = TRUE
  /\ marker = MARKER
  /\ LocalsFresh
  /\ pc = "extract"
  /\ NoOutputs
  /\ before = Snapshot
  /\ last_nonblank = <<>>
  /\ stdin = "eof"
  /\ caller = "none"
  /\ step_result = "running"
  /\ runs = 1
  /\ NormIdle
  /\ SideIdle

Extract ==
  /\ pc = "extract"
  /\ js_obj' = extract_object_literal(html, MARKER)
  /\ IF js_obj'.err = ""
     THEN pc' = "normalize" /\ err' = err
     ELSE pc' = "except" /\ err' = js_obj'.err
  /\ UNCHANGED <<sideVars, docVars, json_text, data, flat, existing_rows, rows, fileVars,
                 envVars, last_nonblank, exit_code, normVars>>

Normalize ==
  /\ pc = "normalize"
  /\ json_text' = js_object_to_json_text(js_obj.text)
  /\ pc' = "decode"
  /\ UNCHANGED <<sideVars, docVars, js_obj, data, flat, existing_rows, rows, err, fileVars,
                 envVars, last_nonblank, exit_code, normVars>>

Decode ==
  /\ pc = "decode"
  /\ data' = json_loads(json_text)
  /\ IF data'.ok
     THEN pc' = "flatten" /\ err' = err
     ELSE pc' = "except" /\ err' = "DecodeError"
  /\ UNCHANGED <<sideVars, docVars, js_obj, json_text, flat, existing_rows, rows, fileVars,
                 envVars, last_nonblank, exit_code, normVars>>

NextPipeline == Extract \/ Normalize \/ Decode

SpecPipeline == InitPipeline /\ [][NextPipeline]_vars

(***************************************************************************)
(* main, lines 445-522, and the script's entry point, lines 525-532        *)
(***************************************************************************)
\* 30_refresh_actuals.is_blank: None, or a string that is empty once stripped
is_blank(v) == v.t = "null" \/ (v.t = "str" /\ strip(v.s) = <<>>)

\* the incoming rows noted, in order, in the record of last non-blank values
RECURSIVE noted(_, _)
noted(last, incoming) ==
  IF incoming = <<>> THEN last
  ELSE LET row == Head(incoming)
           W == {<<key_of(row), f>> : f \in {g \in DOMAIN row : ~is_blank(row[g])}}
       IN noted(IF key_of(row) = NoKey THEN last
                ELSE [p \in DOMAIN last \cup W |->
                        IF p \in W THEN row[p[2]] ELSE last[p]],
                Tail(incoming))

\* raise: control leaves main for the handler at line 527
Raise(kind) ==
  /\ pc' = "except"
  /\ err' = kind

\* lines 445-450
Start ==
  /\ pc = "start"
  /\ IF in_html_exists THEN pc' = "extract" /\ err' = err
     ELSE Raise("InputMissing")
  /\ UNCHANGED <<sideVars, docVars, localVars, fileVars, envVars, last_nonblank,
                 exit_code, normVars>>

\* lines 457-498
Flatten ==
  /\ pc = "flatten"
  /\ LET r == flatten(data.val)
     IN IF r.ok
        THEN /\ rows' = r.rows
             /\ flat' = r.rows
             /\ pc' = "merge"
             /\ err' = err
        ELSE /\ Raise("TypeError")
             /\ UNCHANGED <<sideVars, rows, flat>>
  /\ UNCHANGED <<sideVars, docVars, js_obj, json_text, data, existing_rows, fileVars,
                 envVars, last_nonblank, exit_code, normVars>>

\* lines 500-502
Merge ==
  /\ pc = "merge"
  /\ existing_rows' = load_existing_events(out_events_json)
  /\ rows' = sort_events_desc(merge_events(existing_rows', rows))
  /\ last_nonblank' = noted(last_nonblank, rows)
  /\ pc' = "write_json"
  /\ UNCHANGED <<sideVars, docVars, js_obj, json_text, data, flat, err, fileVars, envVars,
                 exit_code, normVars>>

\* line 504, Path.write_text: open(path, "w") truncates the file
WriteJsonOpen ==
  /\ pc = "write_json"
  /\ out_events_json' = BrokenFile("empty")
  /\ pc' = "write_json_data"
  /\ UNCHANGED <<sideVars, docVars, localVars, err, out_events_csv, out_meta, out_err,
                 envVars, last_nonblank, exit_code, normVars>>

\* line 504, Path.write_text: a part of the text reaches the file
WriteJsonFlush ==
  /\ pc = "write_json_data"
  /\ out_events_json.kind = "empty"
  /\ out_events_json' = BrokenFile("partial")
  /\ UNCHANGED <<sideVars, docVars, localVars, pc, err, out_events_csv, out_meta, out_err,
                 envVars, last_nonblank, exit_code, normVars>>

\* line 504, Path.write_text: the rest is written and the file closed
WriteJsonClose ==
  /\ pc = "write_json_data"
  /\ out_events_json' = StoreFile(rows)
  /\ pc' = "write_csv"
  /\ UNCHANGED <<sideVars, docVars, localVars, err, out_events_csv, out_meta, out_err,
                 envVars, last_nonblank, exit_code, normVars>>

\* line 505
WriteCsv ==
  /\ pc = "write_csv"
  /\ out_events_csv' = StoreFile(rows)
  /\ pc' = "write_meta"
  /\ UNCHANGED <<sideVars, docVars, localVars, err, out_events_json, out_meta, out_err,
                 envVars, last_nonblank, exit_code, normVars>>

\* lines 507-517
WriteMeta ==
  /\ pc = "write_meta"
  /\ out_meta' = [exists |-> TRUE, events_count |-> Len(rows)]
  /\ pc' = "done"
  /\ UNCHANGED <<sideVars, docVars, localVars, err, out_events_json, out_events_csv,
                 out_err, envVars, last_nonblank, exit_code, normVars>>

\* lines 519-522, then the script ends
Finish ==
  /\ pc = "done"
  /\ pc' = "exited"
  /\ exit_code' = 0
  /\ UNCHANGED <<sideVars, docVars, localVars, err, fileVars, envVars, last_nonblank,
                 normVars>>

\* a handler that persists the rows it has before reporting
ExceptHandler_persisting ==
  /\ pc = "except"
  /\ out_err' = [exists |-> TRUE, trace |-> err]
  /\ out_events_json' = StoreFile(rows)
  /\ pc' = "input"
  /\ UNCHANGED <<sideVars, docVars, localVars, err, out_events_csv, out_meta, envVars,
                 last_nonblank, exit_code, normVars>>

\* lines 527-531
ExceptHandler ==
  /\ pc = "except"
  /\ out_err' = [exists |-> TRUE, trace |-> err]
  /\ pc' = "input"
  /\ UNCHANGED <<sideVars, docVars, localVars, err, out_events_json, out_events_csv,
                 out_meta, envVars, last_nonblank, exit_code, normVars>>

\* line 532: input() returns when a line is there and the script ends;
\* at end of file it raises EOFError, which nothing catches
Input ==
  /\ pc = "input"
  /\ exit_code' = IF stdin = "line" THEN 0 ELSE 1
  /\ pc' = "exited"
  /\ UNCHANGED <<sideVars, docVars, localVars, err, fileVars, envVars, last_nonblank,
                 normVars>>

\* the process is killed between two statements
Crash ==
  /\ pc \in {"start", "extract", "normalize", "decode", "flatten", "merge",
             "write_json", "write_json_data", "write_csv", "write_meta",
             "done", "except", "input"}
  /\ pc' = "crashed"
  /\ exit_code' = 137
  /\ UNCHANGED <<sideVars, docVars, localVars, err, fileVars, envVars, last_nonblank,
                 normVars>>

\* pipeline.run_step (check=True) and 30_refresh_actuals.run_step
\* (returncode != 0): the step has failed when the exit status is not 0
run_step ==
  /\ pc \in {"exited", "crashed"}
  /\ step_result = "running"
  /\ step_result' = IF exit_code # 0 THEN "failed" ELSE "ok"
  /\ UNCHANGED <<sideVars, docVars, localVars, pc, err, fileVars, before, stdin, caller,
                 runs, last_nonblank, exit_code, normVars>>

\* the locals of a new process
Fresh ==
  /\ js_obj' = LocateError("")
  /\ json_text' = <<>>
  /\ data' = DecodeError
  /\ flat' = <<>>
  /\ existing_rows' = <<>>
  /\ rows' = <<>>
  /\ err' = ""
  /\ exit_code' = 0

(***************************************************************************)
(* The store under runs that succeed: lines 500-522 after a flattener that *)
(* left an arbitrary record set (distinct keys, as its seen set ensures).  *)
(***************************************************************************)
MaxIncoming == 2
MaxStore == 2

flat_row(event_id, epoch, actual, forecast) ==
  [day_label |-> VStr(<<"M">>), event_id |-> event_id,
   dateline_epoch |-> VInt(epoch), currency |-> None, impact |-> VStr(<<>>),
   impact_score |-> VInt(0), name |-> VStr(<<"n">>),
   actual |-> actual, forecast |-> forecast]

ActualValues == {None, VStr(<<>>), VStr(<<" ">>), VStr(<<"a">>), VStr(<<"b">>)}

FlatRows ==
  {flat_row(VInt(1), 1, a, None) : a \in ActualValues}
    \cup {flat_row(VInt(1), 1, a, VStr(<<"f">>)) : a \in {None, VStr(<<"a">>)}}
    \cup {flat_row(VInt(2), 1, None, None), flat_row(VInt(1), 2, None, None)}

RECURSIVE FlatSeqs(_)
FlatSeqs(n) ==
  IF n = 0 THEN {<<>>}
  ELSE LET P == FlatSeqs(n - 1)
       IN P \cup {Append(x[1], x[2]) :
                    x \in {y \in P \X FlatRows :
                             \A m \in 1..Len(y[1]) : key_of(y[1][m]) # key_of(y[2])}}

PriorRows ==
  {flat_row(VInt(1), 1, VStr(<<"a">>), None),
   flat_row(VInt(1), 1, None, VStr(<<"f">>)),
   flat_row(VInt(2), 1, None, None),
   [name |-> VStr(<<"n">>)],
   [event_id |-> VStr(<<"1">>), dateline_epoch |-> VInt(1)]}

RECURSIVE RowSeqs(_, _)
RowSeqs(R, n) ==
  IF n = 0 THEN {<<>>}
  ELSE LET P == RowSeqs(R, n - 1) IN P \cup {Append(p, r) : p \in P, r \in R}

PriorFiles ==
  {NoFile, BrokenFile("partial"), BrokenFile("other")}
    \cup {StoreFile(r) : r \in RowSeqs(PriorRows, MaxStore)}

InitStore ==
  /\ out_events_json \in PriorFiles
  /\ out_events_csv = NoFile
  /\ out_meta = [exists |-> FALSE, events_count |-> 0]
  /\ out_err = [exists |-> FALSE, trace |-> ""]
  /\ tree = NoTree
  /\ in_html_exists = TRUE
  /\ marker = MARKER
  /\ html = <<>>
  /\ LocalsFresh
  /\ pc = "flatten"
  /\ before = Snapshot
  /\ last_nonblank = <<>>
  /\ stdin = "eof"
  /\ caller = "none"
  /\ step_result = "running"
  /\ runs = 1
  /\ NormIdle
  /\ SideIdle

\* lines 445-498 of a run that gets as far as line 500
Flattened ==
  /\ pc = "flatten"
  /\ rows' \in FlatSeqs(MaxIncoming)
  /\ flat' = rows'
  /\ pc' = "merge"
  /\ UNCHANGED <<sideVars, docVars, js_obj, json_text, data, existing_rows, err, fileVars,
                 envVars, last_nonblank, exit_code, normVars>>

\* the script is run again
Rerun ==
  /\ pc = "exited"
  /\ Fresh
  /\ pc' = "flatten"
  /\ before' = Snapshot
  /\ UNCHANGED <<sideVars, docVars, fileVars, stdin, caller, step_result, runs,
                 last_nonblank, normVars>>

NextStore ==
  \/ Flattened
  \/ Merge
  \/ WriteJsonOpen
  \/ WriteJsonFlush
  \/ WriteJsonClose
  \/ WriteCsv
  \/ WriteMeta
  \/ Finish
  \/ Rerun

SpecStore == InitStore /\ [][NextStore]_vars

(***************************************************************************)
(* Whole runs of the script as a step of a caller                          *)
(***************************************************************************)
MaxPrior == 1
MaxRuns == 2

calendar_event(event_id, epoch, actual) ==
  VDict(<<Item(K_id, VInt(event_id)), Item(K_dateline, VInt(epoch)),
          Item(K_actual, actual)>>)

calendar(events) ==
  VDict(<<Item(K_days,
            VList(<<Item(<<>>,
              VDict(<<Item(K_date, VStr(<<"M">>)),
                      Item(K_events,
                        VList([n \in 1..Len(events) |-> Item(<<>>, events[n])]))>>))>>))>>)

Calendars ==
  {calendar(<<calendar_event(1, 1, a)>>) : a \in {None, VStr(<<"a">>)}}
    \cup {calendar(<<calendar_event(1, 2, None), calendar_event(2, 2, None)>>),
          calendar(<<>>)}

InputFile(exists, text, value) == [exists |-> exists, html |-> text, tree |-> value]

RunDocs ==
  {InputFile(FALSE, <<>>, NoTree),
   InputFile(TRUE, <<"<", "p", ">">>, NoTree),
   InputFile(TRUE, MARKER \o <<" ", "1", ";">>, NoTree),
   InputFile(TRUE, MARKER \o <<" ", "{", "a", ":", "{", "}", ";">>, NoTree),
   InputFile(TRUE, MARKER \o <<" ", "{", "a", ":", "}", ";">>, NoTree),
   InputFile(TRUE, MARKER \o <<" ", "{", "d", "a", "y", "s", ":", "1", "}", ";">>, NoTree)}
    \cup {InputFile(TRUE, document_of(c), c) : c \in Calendars}

RunPriorFiles ==
  {NoFile, BrokenFile("partial")}
    \cup {StoreFile(r) :
            r \in RowSeqs({flat_row(VInt(1), 1, VStr(<<"b">>), None)}, MaxPrior)}

InitRun ==
  /\ out_events_json \in RunPriorFiles
  /\ out_events_csv = NoFile
  /\ out_meta = [exists |-> FALSE, events_count |-> 0]
  /\ out_err = [exists |-> FALSE, trace |-> ""]
  /\ \E doc \in RunDocs :
       /\ in_html_exists = doc.exists
       /\ html = doc.html
       /\ tree = doc.tree
  /\ marker = MARKER
  /\ stdin \in {"line", "eof"}
  /\ caller \in {"pipeline", "30_refresh_actuals"}
  /\ step_result = "running"
  /\ runs = 1
  /\ LocalsFresh
  /\ pc = "start"
  /\ before = Snapshot
  /\ last_nonblank = <<>>
  /\ NormIdle
  /\ SideIdle

\* the caller runs the step again, on the document then in place
Reinvoke ==
  /\ step_result # "running"
  /\ runs < MaxRuns
  /\ \E doc \in RunDocs :
       /\ in_html_exists' = doc.exists
       /\ html' = doc.html
       /\ tree' = doc.tree
  /\ step_result' = "running"
  /\ runs' = runs + 1
  /\ Fresh
  /\ pc' = "start"
  /\ before' = Snapshot
  /\ UNCHANGED <<sideVars, marker, fileVars, stdin, caller, last_nonblank, normVars>>

NextRun ==
  \/ Start
  \/ Extract
  \/ Normalize
  \/ Decode
  \/ Flatten
  \/ Merge
  \/ WriteJsonOpen
  \/ WriteJsonFlush
  \/ WriteJsonClose
  \/ WriteCsv
  \/ WriteMeta
  \/ Finish
  \/ ExceptHandler
  \/ Input
  \/ Crash
  \/ run_step
  \/ Reinvoke

SpecRun == InitRun /\ [][NextRun]_vars

(***************************************************************************)
(* extract_object_literal as a pure function of a document and a marker    *)
(***************************************************************************)
MaxLocFrags == 4

ShortMarker == <<"m", "=">>
BraceMarker == <<"m", "{", "=">>
Markers == {ShortMarker, BraceMarker}

LocatorFrags ==
  {ShortMarker, BraceMarker, <<"{">>, <<"}">>, <<SQ>>, <<DQ>>, <<BS>>, <<"a">>}

InitLocator ==
  /\ marker \in Markers
  /\ html \in Concats(LocatorFrags, MaxLocFrags)
  /\ tree = NoTree
  /\ in_html_exists = TRUE
  /\ RunIdle
  /\ pc = "locate"
  /\ NormIdle
  /\ SideIdle

Locate ==
  /\ pc = "locate"
  /\ js_obj' = extract_object_literal(html, marker)
  /\ pc' = "located"
  /\ UNCHANGED <<sideVars, docVars, json_text, data, flat, existing_rows, rows, err,
                 fileVars, envVars, last_nonblank, exit_code, normVars>>

NextLocator == Locate

SpecLocator == InitLocator /\ [][NextLocator]_vars

(***************************************************************************)
(* The flattener, lines 457-498, on decoded documents                      *)
(***************************************************************************)
MaxEvents == 2

\* a key that the event does not have
Absent == mk("absent", 0, <<>>, <<>>)

members(items) == SelectSeq(items, LAMBDA it : it.val # Absent)

event_node(id, dateline, name) ==
  VDict(members(<<Item(K_id, id), Item(K_dateline, dateline),
                  Item(K_name, VStr(<<name>>))>>))

IdValues ==
  {VInt(1), VInt(2), VBool(TRUE), VStr(<<"1">>), VFloat(<<"1", ".", "5">>),
   None, VList(<<>>), VDict(<<>>), Absent}

EventNodes ==
  {event_node(id, VInt(1), name) : id \in IdValues, name \in {"x", "y"}}
    \cup {event_node(VInt(1), dateline, "x") : dateline \in IdValues}

day_node(label, events) ==
  VDict(<<Item(K_date, VStr(label)),
          Item(K_events, VList([n \in 1..Len(events) |-> Item(<<>>, events[n])]))>>)

days_doc(days) ==
  VDict(<<Item(K_days, VList([n \in 1..Len(days) |-> Item(<<>>, days[n])]))>>)

FlattenDocs(max) ==
  LET E == RowSeqs(EventNodes, max)
  IN {days_doc(<<day_node(<<"M">>, e)>>) : e \in E}
       \cup {days_doc(<<day_node(<<"M">>, SubSeq(e, 1, k)),
                        day_node(<<"T">>, SubSeq(e, k + 1, Len(e)))>>) :
               <<e, k>> \in {x \in E \X (0..max) : x[2] <= Len(x[1])}}

InitFlatten ==
  /\ DocIdle
  /\ js_obj = LocateError("")
  /\ json_text = <<>>
  /\ data \in {Decoded(doc, 0) : doc \in FlattenDocs(MaxEvents)}
  /\ flat = <<>>
  /\ existing_rows = <<>>
  /\ rows = <<>>
  /\ err = ""
  /\ exit_code = 0
  /\ pc = "flatten"
  /\ NoOutputs
  /\ before = Snapshot
  /\ last_nonblank = <<>>
  /\ stdin = "eof"
  /\ caller = "none"
  /\ step_result = "running"
  /\ runs = 1
  /\ NormIdle
  /\ SideIdle

NextFlatten == Flatten

SpecFlatten == InitFlatten /\ [][NextFlatten]_vars

(***************************************************************************)
(* main, lines 452-498, on documents that hold one day with one event      *)
(***************************************************************************)
scenario_event(id, impactName, name, actual) ==
  VDict(members(<<Item(K_id, VInt(id)),
                  Item(K_dateline, VInt(1700000000)),
                  Item(K_impactName, impactName),
                  Item(K_currency, VStr(<<"U", "S", "D">>)),
                  Item(K_name, VStr(name)),
                  Item(K_actual, actual),
                  Item(K_forecast, VStr(<<"3", ".", "0", "%">>))>>))

ImpactNames ==
  {VStr(<<"H", "i", "g", "h">>), VStr(<<"M", "E", "D", "I", "U", "M">>),
   VStr(<<"l", "o", "w">>), VStr(<<"N", "o", "n", "e">>),
   VStr(<<" ", "H", "i", "g", "h">>), VStr(<<>>), None, Absent}

ScenarioTrees ==
  {days_doc(<<day_node(<<"M", "o", "n">>, <<scenario_event(id, impactName, name, actual)>>)>>) :
     id \in {101, 7},
     impactName \in ImpactNames,
     name \in {<<"C", "P", "I">>, <<"i", "t", SQ, "s">>},
     actual \in {VStr(<<"3", ".", "1", "%">>), None}}

InitScenario ==
  /\ tree \in ScenarioTrees
  /\ html = document_of(tree)
  /\ in_html_exists = TRUE
  /\ marker = MARKER
  /\ RunIdle
  /\ pc = "extract"
  /\ NormIdle
  /\ SideIdle

NextScenario == Extract \/ Normalize \/ Decode \/ Flatten

SpecScenario == InitScenario /\ [][NextScenario]_vars

(***************************************************************************)
(* single_quotes_to_double on single-quoted string literals, followed by   *)
(* the strict decoder                                                      *)
(***************************************************************************)
MaxQuoteFrags == 3

\* pieces of the body of a single-quoted literal: plain characters, a
\* literal double quote, and backslash escapes
QuoteFrags ==
  {<<"a">>, <<"}">>, <<DQ>>, <<BS, SQ>>, <<BS, DQ>>, <<BS, BS>>, <<BS, "n">>}

InitQuotes ==
  /\ norm_in \in {<<SQ>> \o body \o <<SQ>> :
                    body \in Concats(QuoteFrags, MaxQuoteFrags)}
  /\ norm_once = <<>>
  /\ norm_twice = <<>>
  /\ norm_pc = "input"
  /\ ScriptIdle
  /\ SideIdle

ConvertQuotes ==
  /\ norm_pc = "input"
  /\ norm_once' = single_quotes_to_double(norm_in)
  /\ norm_pc' = "converted"
  /\ UNCHANGED <<sideVars, norm_in, norm_twice, docVars, localVars, pc, err, fileVars,
                 envVars, last_nonblank, exit_code>>

DecodeConverted ==
  /\ norm_pc = "converted"
  /\ data' = json_loads(norm_once)
  /\ norm_pc' = "decoded"
  /\ UNCHANGED <<sideVars, norm_in, norm_once, norm_twice, docVars, js_obj, json_text,
                 flat, existing_rows, rows, pc, err, fileVars, envVars,
                 last_nonblank, exit_code>>

NextQuotes == ConvertQuotes \/ DecodeConverted

SpecQuotes == InitQuotes /\ [][NextQuotes]_vars

(***************************************************************************)
(* sort_events_desc on records whose sort fields may be missing or of      *)
(* another type                                                            *)
(***************************************************************************)
MaxSortRows == 2

\* a stored record with the given sort fields; a field that is Absent is
\* not a key of the record
sort_row(epoch, event_id) ==
  LET full == [dateline_epoch |-> epoch, event_id |-> event_id,
               name |-> VStr(<<"n">>)]
  IN [f \in {g \in DOMAIN full : full[g] # Absent} |-> full[f]]

SortEpochs ==
  {VInt(2), VInt(0), VInt(0 - 5), VBool(TRUE), VStr(<<"9">>), None, Absent}

SortIds == {VInt(1), VInt(0 - 2), VBool(TRUE), None, Absent}

SortRows == {sort_row(e, i) : e \in SortEpochs, i \in SortIds}

InitSort ==
  /\ existing_rows \in RowSeqs(SortRows, MaxSortRows)
  /\ js_obj = LocateError("")
  /\ json_text = <<>>
  /\ data = DecodeError
  /\ flat = <<>>
  /\ rows = <<>>
  /\ err = ""
  /\ exit_code = 0
  /\ pc = "sort"
  /\ NormIdle
  /\ DocIdle
  /\ NoOutputs
  /\ before = Snapshot
  /\ last_nonblank = <<>>
  /\ stdin = "eof"
  /\ caller = "none"
  /\ step_result = "running"
  /\ runs = 1
  /\ SideIdle

Sort ==
  /\ pc = "sort"
  /\ rows' = sort_events_desc(existing_rows)
  /\ pc' = "sorted"
  /\ UNCHANGED <<sideVars, normVars, docVars, js_obj, json_text, data, flat,
                 existing_rows, err, fileVars, envVars, last_nonblank,
                 exit_code>>

NextSort == Sort

SpecSort == InitSort /\ [][NextSort]_vars

(***************************************************************************)
(* quote_unquoted_keys on short texts                                      *)
(***************************************************************************)
MaxKeyFrags == 4

KeyFrags ==
  {<<"{">>, <<",">>, <<":">>, <<" ">>, <<"a">>, <<"1">>, <<SQ>>, <<DQ>>, <<BS>>,
   <<"{", "a">>, <<" ", ":">>}

InitKeys ==
  /\ norm_in \in Concats(KeyFrags, MaxKeyFrags)
  /\ norm_once = <<>>
  /\ norm_twice = <<>>
  /\ norm_pc = "input"
  /\ ScriptIdle
  /\ SideIdle

QuoteKeys ==
  /\ norm_pc = "input"
  /\ norm_once' = quote_unquoted_keys(norm_in)
  /\ norm_pc' = "keys_quoted"
  /\ UNCHANGED <<sideVars, norm_in, norm_twice, docVars, localVars, pc, err, fileVars,
                 envVars, last_nonblank, exit_code>>

NextKeys == QuoteKeys

SpecKeys == InitKeys /\ [][NextKeys]_vars

(***************************************************************************)
(* strip_object_freeze on texts with call wrappers, parentheses and        *)
(* strings                                                                 *)
(***************************************************************************)
MaxWrapFrags == 4

OTHER_WRAPPER == <<"F", ".", "g", "(">>

WrapFrags ==
  {OBJECT_FREEZE, OTHER_WRAPPER, <<"(">>, <<")">>, <<"1">>, <<SQ>>, <<BS>>,
   <<SQ, ")", SQ>>, <<DQ, "(", BS, DQ, DQ>>}

InitWrappers ==
  /\ norm_in \in Concats(WrapFrags, MaxWrapFrags)
  /\ norm_once = <<>>
  /\ norm_twice = <<>>
  /\ norm_pc = "input"
  /\ ScriptIdle
  /\ SideIdle

StripWrappers ==
  /\ norm_pc = "input"
  /\ norm_once' = strip_object_freeze(norm_in)
  /\ norm_pc' = "stripped"
  /\ UNCHANGED <<sideVars, norm_in, norm_twice, docVars, localVars, pc, err, fileVars,
                 envVars, last_nonblank, exit_code>>

NextWrappers == StripWrappers

SpecWrappers == InitWrappers /\ [][NextWrappers]_vars

(***************************************************************************)
(* remove_trailing_commas on short texts, and the whole normalizer and the *)
(* decoder on the same text                                                *)
(***************************************************************************)
MaxCommaFrags == 4

MEMBER_A == <<"{", DQ, "a", DQ, ":", "1">>

CommaFrags ==
  {MEMBER_A, <<",">>, <<"}">>, <<"]">>, <<" ">>, <<SQ>>, <<DQ>>, <<BS>>}

InitCommas ==
  /\ norm_in \in Concats(CommaFrags, MaxCommaFrags)
  /\ norm_once = <<>>
  /\ norm_twice = <<>>
  /\ norm_pc = "input"
  /\ ScriptIdle
  /\ SideIdle

RemoveCommas ==
  /\ norm_pc = "input"
  /\ norm_once' = remove_trailing_commas(norm_in)
  /\ norm_pc' = "commas_removed"
  /\ UNCHANGED <<sideVars, norm_in, norm_twice, docVars, localVars, pc, err, fileVars,
                 envVars, last_nonblank, exit_code>>

\* lines 454-455 on the text: normalize, then decode
NormalizeDecode ==
  /\ norm_pc = "commas_removed"
  /\ norm_twice' = js_object_to_json_text(norm_in)
  /\ data' = json_loads(js_object_to_json_text(norm_in))
  /\ norm_pc' = "decoded"
  /\ UNCHANGED <<sideVars, norm_in, norm_once, docVars, js_obj, json_text, flat,
                 existing_rows, rows, pc, err, fileVars, envVars,
                 last_nonblank, exit_code>>

NextCommas == RemoveCommas \/ NormalizeDecode

SpecCommas == InitCommas /\ [][NextCommas]_vars

(***************************************************************************)
(* Each of the four passes alone on texts with quoted strings that hold    *)
(* structural characters                                                   *)
(***************************************************************************)
MaxStringFrags == 4

StringFrags ==
  {<<SQ>>, <<DQ>>, <<BS>>, <<"{", "a", ":">>, <<",", "}">>, OBJECT_FREEZE,
   <<")">>}

InitStrings ==
  /\ norm_in \in Concats(StringFrags, MaxStringFrags)
  /\ norm_once = <<>>
  /\ norm_twice = <<>>
  /\ norm_pc = "input"
  /\ ScriptIdle
  /\ SideIdle

NextStrings == QuoteKeys \/ ConvertQuotes \/ StripWrappers \/ RemoveCommas

SpecStrings == InitStrings /\ [][NextStrings]_vars

(***************************************************************************)
(* The quote and escape tracking of the five scanning loops, observed: a   *)
(* loop that is about to read position pos holds in_str, quote and esc;    *)
(* quote means something only inside a string.                             *)
(***************************************************************************)
MaxScanFrags == 3

ScanFrags ==
  {<<SQ>>, <<DQ>>, <<BS>>, <<"{", "a", ":">>, <<",", "}">>, OBJECT_FREEZE, <<")">>,
   <<DQ, BS, DQ>>}

View(scanner, pos, in_str, quote, esc) ==
  [scanner |-> scanner, pos |-> pos, in |-> in_str,
   q |-> IF in_str THEN quote ELSE "", esc |-> esc]

\* extract_object_literal's loop (lines 74-96) started at the first character
locator_views(js) ==
  LET first == [k |-> 1, in_str |-> FALSE, esc |-> FALSE, quote |-> "",
                depth |-> 0, end |-> 0]
      at == [n \in 0..Len(js) |-> extract_loop(js, first, n)]
  IN {View("locator", at[n].k, at[n].in_str, at[n].quote, at[n].esc) :
        n \in {m \in 0..Len(js) : at[m].k <= Len(js)}}

\* quote_unquoted_keys' loop (lines 112-157)
keys_views(js) ==
  LET at == [n \in 0..Len(js) |-> quote_unquoted_keys_loop(js, ScanStart, n)]
  IN {View("keys", at[n].i, at[n].in_str, at[n].quote, at[n].esc) :
        n \in {m \in 0..Len(js) : at[m].i <= Len(js)}}

\* single_quotes_to_double's loop (lines 173-222): in_d and in_s are the
\* string state, the quote is the one the flag stands for
quotes_views(js) ==
  LET first == [i |-> 1, out |-> <<>>, in_d |-> FALSE, in_s |-> FALSE,
                esc |-> FALSE]
      at == [n \in 0..Len(js) |-> single_quotes_to_double_loop(js, first, n)]
  IN {View("quotes", at[n].i, at[n].in_d \/ at[n].in_s,
           IF at[n].in_d THEN DQ ELSE SQ, at[n].esc) :
        n \in {m \in 0..Len(js) : at[m].i <= Len(js)}}

\* strip_object_freeze's inner string loop (lines 270-281) entered after the
\* opening quote at position p
wrapper_string_views(js, p) ==
  LET first == [i |-> p + 1, out |-> <<>>, q |-> js[p], esc2 |-> FALSE,
                closed |-> FALSE]
      at == [n \in 0..Len(js) |-> freeze_string_loop(js, first, n)]
  IN {View("wrappers", at[n].i, TRUE, js[p], at[n].esc2) :
        n \in {m \in 0..Len(js) : at[m].i <= Len(js) /\ ~at[m].closed}}

\* strip_object_freeze's loop over a wrapper's argument (lines 261-295)
\* entered at position p, with the string loops it runs
wrapper_argument_views(js, p) ==
  LET first == [i |-> p, out |-> <<>>, par |-> 1]
      at == [n \in 0..Len(js) |-> freeze_par_loop(js, first, n)]
      live == {m \in 0..Len(js) : at[m].i <= Len(js) /\ at[m].par > 0}
  IN {View("wrappers", at[n].i, FALSE, "", FALSE) : n \in live}
       \cup UNION {wrapper_string_views(js, at[n].i) :
                     n \in {m \in live : js[at[m].i] \in {DQ, SQ}}}

\* strip_object_freeze's outer loop (lines 237-299) with its inner loops
wrappers_views(js) ==
  LET at == [n \in 0..Len(js) |-> strip_object_freeze_loop(js, ScanStart, n)]
      live == {m \in 0..Len(js) : at[m].i <= Len(js)}
  IN {View("wrappers", at[n].i, at[n].in_str, at[n].quote, at[n].esc) : n \in live}
       \cup UNION {wrapper_argument_views(js, at[n].i + Len(OBJECT_FREEZE)) :
                     n \in {m \in live :
                              /\ ~at[m].in_str
                              /\ js[at[m].i] \notin {DQ, SQ}
                              /\ startswith(js, OBJECT_FREEZE, at[m].i)}}

\* remove_trailing_commas' loop (lines 314-344)
commas_views(js) ==
  LET at == [n \in 0..Len(js) |-> remove_trailing_commas_loop(js, ScanStart, n)]
  IN {View("commas", at[n].i, at[n].in_str, at[n].quote, at[n].esc) :
        n \in {m \in 0..Len(js) : at[m].i <= Len(js)}}

InitScanners ==
  /\ norm_in \in Concats(ScanFrags, MaxScanFrags)
  /\ norm_once = <<>>
  /\ norm_twice = <<>>
  /\ norm_pc = "input"
  /\ visited = {}
  /\ ScanSideIdle
  /\ ScriptIdle

Scanned(from, to, views) ==
  /\ norm_pc = from
  /\ norm_pc' = to
  /\ visited' = visited \cup views
  /\ UNCHANGED <<scanSide, norm_in, norm_once, norm_twice, docVars, localVars, pc, err,
                 fileVars, envVars, last_nonblank, exit_code>>

ScanLocator == Scanned("input", "scan_keys", locator_views(norm_in))
ScanKeys == Scanned("scan_keys", "scan_quotes", keys_views(norm_in))
ScanQuotes == Scanned("scan_quotes", "scan_wrappers", quotes_views(norm_in))
ScanWrappers == Scanned("scan_wrappers", "scan_commas", wrappers_views(norm_in))
ScanCommas == Scanned("scan_commas", "scanned", commas_views(norm_in))

NextScanners ==
  ScanLocator \/ ScanKeys \/ ScanQuotes \/ ScanWrappers \/ ScanCommas

SpecScanners == InitScanners /\ [][NextScanners]_vars

(***************************************************************************)
(* 30_refresh_actuals.py: pk, lines 102-106, and merge_events, lines       *)
(* 117-199.  The script's merge_events is refresh_merge_events here, its   *)
(* name being taken by the merge of 03_extract_from_document.py.           *)
(***************************************************************************)
\* int(v) of None, a bool, an int or a string (no float and no string with
\* an underscore occurs in a row of the model): the integer, or the
\* exception that int raises
py_int(v) ==
  IF v.t \in {"int", "bool"} THEN [ok |-> TRUE, n |-> v.n, err |-> ""]
  ELSE IF v.t = "str"
    THEN LET s == strip(v.s)
             signed == s # <<>> /\ s[1] \in {"-", "+"}
             p == IF signed THEN 2 ELSE 1
         IN IF p <= Len(s) /\ digits_end(s, p) = Len(s) + 1
            THEN [ok |-> TRUE,
                  n |-> (IF signed /\ s[1] = "-" THEN -1 ELSE 1)
                          * int_val(s, p, Len(s) + 1, 0),
                  err |-> ""]
            ELSE [ok |-> FALSE, n |-> 0, err |-> "ValueError"]
  ELSE [ok |-> FALSE, n |-> 0, err |-> "TypeError"]

\* pk: NoKey stands for None
pk(e) ==
  IF "event_id" \in DOMAIN e /\ "dateline_epoch" \in DOMAIN e
  THEN LET ints == [f \in {"event_id", "dateline_epoch"} |-> py_int(e[f])]
       IN IF ints["event_id"].ok /\ ints["dateline_epoch"].ok
          THEN <<ints["event_id"].n, ints["dateline_epoch"].n>> ELSE NoKey
  ELSE NoKey

\* av == bv for values that are None, bools, ints or strings
py_eq(av, bv) ==
  IF isinstance_int(av) /\ isinstance_int(bv) THEN av.n = bv.n ELSE av = bv

REFRESH_FIELDS ==
  {"actual", "forecast", "previous", "revision", "impact", "impact_score",
   "timeLabel", "prefixedName", "name", "url", "soloUrl"}

\* before_map[k] = the row at index n of the list before
before_map_put(before_map, k, n) ==
  {e \in before_map : e.k # k} \cup {[k |-> k, n |-> n]}

RECURSIVE before_map_of(_, _, _)
before_map_of(before_map, before_list, n) ==
  IF n > Len(before_list) THEN before_map
  ELSE LET k == pk(before_list[n])
       IN before_map_of(IF k # NoKey THEN before_map_put(before_map, k, n)
                        ELSE before_map,
                        before_list, n + 1)

\* line 176: the condition under which b[f] = av
field_changes(av, bv) == ~py_eq(av, bv) /\ ~(is_blank(av) /\ is_blank(bv))

\* lines 172-180: the fields of the matched row b that a overwrites
changed_fields(b, a) ==
  {f \in REFRESH_FIELDS \cap DOMAIN a : field_changes(a[f], get(b, f))}

refreshed(b, a, changed) ==
  [f \in DOMAIN b \cup changed |-> IF f \in changed THEN a[f] ELSE b[f]]

\* lines 172-187: the matched row st.before[n] takes the changed fields of a
\* and the counters count
merge_matched(st, a, n, changed) ==
  [st EXCEPT
     !.before = [st.before EXCEPT ![n] = refreshed(st.before[n], a, changed)],
     !.matched = st.matched + 1,
     !.updated_actual =
        st.updated_actual + (IF "actual" \in changed THEN 1 ELSE 0),
     !.newly_released =
        st.newly_released
          + (IF is_blank(get(st.before[n], "actual")) /\ ~is_blank(get(a, "actual"))
             THEN 1 ELSE 0),
     !.updated_any = st.updated_any + (IF changed # {} THEN 1 ELSE 0)]

\* lines 152-187 for a row a whose key is k
merge_keyed(st, a, k) ==
  IF k = NoKey THEN st
  ELSE IF ~\E e \in st.before_map : e.k = k
    THEN [st EXCEPT !.before = Append(st.before, a),
                    !.before_map = before_map_put(st.before_map, k,
                                                  Len(st.before) + 1),
                    !.added = st.added + 1]
  ELSE LET n == (CHOOSE e \in st.before_map : e.k = k).n
       IN merge_matched(st, a, n, changed_fields(st.before[n], a))

\* lines 150-187, one pass of the loop over after
merge_after_step(st, a) == merge_keyed(st, a, pk(a))

RECURSIVE merge_after(_, _)
merge_after(st, after) ==
  IF after = <<>> THEN st ELSE merge_after(merge_after_step(st, Head(after)), Tail(after))

\* line 190, the sort key of a row, with the row: r.get(field, 0) is 0 for a
\* missing field only, so int() fails on a null and on a string that is no
\* integer
refresh_sort_key(r) ==
  LET ints == [f \in {"dateline_epoch", "event_id"} |->
                 py_int(IF f \in DOMAIN r THEN r[f] ELSE VInt(0))]
      epoch == ints["dateline_epoch"]
      event_id == ints["event_id"]
  IN IF ~epoch.ok THEN [ok |-> FALSE, key |-> <<0, 0>>, err |-> epoch.err, row |-> r]
     ELSE IF ~event_id.ok
       THEN [ok |-> FALSE, key |-> <<0, 0>>, err |-> event_id.err, row |-> r]
     ELSE [ok |-> TRUE, key |-> <<epoch.n, event_id.n>>, err |-> "", row |-> r]

\* list.sort(key=...): stable and ascending, over rows paired with their keys
RECURSIVE refresh_sorted_insert(_, _)
refresh_sorted_insert(done, row) ==
  IF done = <<>> THEN <<row>>
  ELSE IF key_le(Head(done).key, row.key)
    THEN <<Head(done)>> \o refresh_sorted_insert(Tail(done), row)
  ELSE <<row>> \o done

RECURSIVE refresh_sorted_from(_, _)
refresh_sorted_from(done, rows_left) ==
  IF rows_left = <<>> THEN done
  ELSE refresh_sorted_from(refresh_sorted_insert(done, Head(rows_left)), Tail(rows_left))

\* lines 190-199: the list sorted and the stats, or the exception of the
\* first row whose key cannot be made
merge_sorted(st, keys) ==
  LET failing == {n \in 1..Len(keys) : ~keys[n].ok}
  IN IF failing # {}
     THEN [ok |-> FALSE, merged |-> <<>>, stats |-> NoStats,
           err |-> keys[CHOOSE n \in failing : \A m \in failing : n <= m].err]
     ELSE [ok |-> TRUE,
           merged |-> [n \in 1..Len(keys) |-> refresh_sorted_from(<<>>, keys)[n].row],
           stats |-> [matched |-> st.matched, added |-> st.added,
                      updated_any_field |-> st.updated_any,
                      updated_actual |-> st.updated_actual,
                      newly_released_actual |-> st.newly_released],
           err |-> ""]

merge_sort(st) ==
  merge_sorted(st, [n \in 1..Len(st.before) |-> refresh_sort_key(st.before[n])])

\* merge_events(before, after) of 30_refresh_actuals.py: the merged list and
\* the stats, or the exception of the sort
refresh_merge_events(before_list, after) ==
  merge_sort(merge_after([before |-> before_list,
                          before_map |-> before_map_of({}, before_list, 1),
                          matched |-> 0, added |-> 0, updated_any |-> 0,
                          updated_actual |-> 0, newly_released |-> 0],
                         after))

(***************************************************************************)
(* 30_refresh_actuals.main, lines 251-258: the merge of one refresh cycle  *)
(* applied to arbitrary before and after lists                             *)
(***************************************************************************)
MaxRefreshRows == 2

RefreshBeforeRows ==
  {flat_row(VInt(1), 1, a, None) : a \in {None, VStr(<<"a">>), VStr(<<" ">>)}}
    \cup {flat_row(VInt(2), 1, None, None),
          [name |-> VStr(<<"n">>)],
          [event_id |-> None, dateline_epoch |-> VInt(1)],
          [event_id |-> VStr(<<"1">>), dateline_epoch |-> VInt(1),
           actual |-> VStr(<<"b">>)]}

RefreshAfterRows ==
  {flat_row(VInt(1), 1, a, f) : a \in ActualValues, f \in {None, VStr(<<"f">>)}}
    \cup {flat_row(VInt(1), 2, VStr(<<"a">>), None),
          [name |-> VStr(<<"n">>)],
          [event_id |-> VInt(1), dateline_epoch |-> VInt(1),
           forecast |-> VStr(<<"g">>)]}

InitRefreshMerge ==
  /\ refresh_before \in RowSeqs(RefreshBeforeRows, MaxRefreshRows)
  /\ refresh_after \in RowSeqs(RefreshAfterRows, MaxRefreshRows)
  /\ refresh_args \in [keep_after : {FALSE}, overwrite_events : BOOLEAN]
  /\ in_events = StoreFile(refresh_after)
  /\ out_merged = NoFile
  /\ refresh_out = [NoRefreshOut EXCEPT !.events_before = StoreFile(refresh_before),
                                        !.events_after = StoreFile(refresh_after)]
  /\ refresh_merged = <<>>
  /\ refresh_stats = [step02_ok |-> TRUE, step03_ok |-> TRUE, merge |-> NoStats,
                      err |-> "", exit_code |-> 0]
  /\ refresh_pc = "merge"
  /\ RefreshSideIdle
  /\ NormIdle
  /\ ScriptIdle

\* lines 251-258: merge, write OUT_MERGED and, when asked, IN_EVENTS
RefreshMerge ==
  /\ refresh_pc = "merge"
  /\ LET result == refresh_merge_events(refresh_before, refresh_after)
     IN IF result.ok
        THEN /\ refresh_merged' = result.merged
             /\ refresh_stats' = [refresh_stats EXCEPT !.merge = result.stats]
             /\ out_merged' = StoreFile(result.merged)
             /\ in_events' = IF refresh_args.overwrite_events
                             THEN StoreFile(result.merged) ELSE in_events
             /\ refresh_pc' = "meta"
        ELSE /\ refresh_stats' = [refresh_stats EXCEPT !.err = result.err]
             /\ refresh_pc' = "except"
             /\ UNCHANGED <<refresh_merged, out_merged, in_events>>
  /\ UNCHANGED <<refreshSide, refresh_out, refresh_args, refresh_before, refresh_after,
                 normVars, docVars, localVars, pc, err, fileVars, envVars,
                 last_nonblank, exit_code>>

NextRefreshMerge == RefreshMerge

SpecRefreshMerge == InitRefreshMerge /\ [][NextRefreshMerge]_vars

(***************************************************************************)
(* 30_refresh_actuals.py: main, lines 202-288, and the script's entry      *)
(* point, lines 291-298.  Step 03 runs as the process modelled above,      *)
(* step 02 (a browser capture) by its outcome: it writes the document, or  *)
(* it fails and ends as step 03 does, in its handler's input().            *)
(***************************************************************************)
MaxRefreshPrior == 2

RefreshPriorRows ==
  {flat_row(VInt(1), 1, VStr(<<"b">>), None), flat_row(VInt(3), 1, None, None)}

RefreshPriorFiles ==
  {NoFile, BrokenFile("partial"), BrokenFile("not_list")}
    \cup {StoreFile(r) : r \in RowSeqs(RefreshPriorRows, MaxRefreshPrior)}

InitRefresh ==
  /\ in_events \in RefreshPriorFiles
  /\ out_merged = NoFile
  /\ refresh_out = NoRefreshOut
  /\ refresh_args \in [keep_after : BOOLEAN, overwrite_events : BOOLEAN]
  /\ RefreshLocalsFresh
  /\ refresh_pc = "start"
  /\ RefreshSideIdle
  /\ out_events_json \in {NoFile, StoreFile(<<flat_row(VInt(1), 1, VStr(<<"b">>), None)>>)}
  /\ out_events_csv = NoFile
  /\ out_meta = [exists |-> FALSE, events_count |-> 0]
  /\ out_err = [exists |-> FALSE, trace |-> ""]
  /\ tree = NoTree
  /\ in_html_exists = FALSE
  /\ html = <<>>
  /\ marker = MARKER
  /\ stdin \in {"line", "eof"}
  /\ caller = "30_refresh_actuals"
  /\ step_result = "running"
  /\ runs = 1
  /\ LocalsFresh
  /\ pc = "idle"
  /\ before = Snapshot
  /\ last_nonblank = <<>>
  /\ NormIdle

\* load_events, lines 95-99
load_events(file) ==
  IF file.kind = "list" THEN [ok |-> TRUE, rows |-> file.rows, err |-> ""]
  ELSE IF file.kind = "not_list" THEN [ok |-> FALSE, rows |-> <<>>, err |-> "ValueError"]
  ELSE [ok |-> FALSE, rows |-> <<>>, err |-> "JSONDecodeError"]

RefreshRaise(kind) ==
  /\ refresh_stats' = [refresh_stats EXCEPT !.err = kind]
  /\ refresh_pc' = "except"

\* lines 203-225: IN_EVENTS must exist; BEFORE is loaded from it and saved
\* to the history directory
RefreshLoadBefore ==
  /\ refresh_pc = "start"
  /\ IF ~in_events.exists
     THEN RefreshRaise("FileNotFoundError")
            /\ UNCHANGED <<refresh_before, refresh_out>>
     ELSE IF ~load_events(in_events).ok
       THEN RefreshRaise(load_events(in_events).err)
              /\ UNCHANGED <<refresh_before, refresh_out>>
     ELSE /\ refresh_before' = load_events(in_events).rows
          /\ refresh_out' = [refresh_out EXCEPT
                               !.events_before = StoreFile(refresh_before')]
          /\ refresh_pc' = "step02"
          /\ UNCHANGED refresh_stats
  /\ UNCHANGED <<refreshSide, in_events, out_merged, refresh_args, refresh_after,
                 refresh_merged, normVars, docVars, localVars, pc, err, fileVars,
                 envVars, last_nonblank, exit_code>>

\* lines 230-232, run_step(STEP02): the capture writes a document and exits
\* with 0, or fails, waits in input() and exits with 0 on a line and with 1
\* at end of file; run_step raises on a status that is not 0
RefreshStep02 ==
  /\ refresh_pc = "step02"
  /\ \/ /\ \E doc \in {d \in RunDocs : d.exists} :
             /\ in_html_exists' = TRUE
             /\ html' = doc.html
             /\ tree' = doc.tree
        /\ refresh_stats' = [refresh_stats EXCEPT !.step02_ok = TRUE]
        /\ refresh_pc' = "step03"
     \/ /\ UNCHANGED <<in_html_exists, html, tree>>
        /\ IF stdin = "line"
           THEN /\ refresh_stats' = [refresh_stats EXCEPT !.step02_ok = TRUE]
                /\ refresh_pc' = "step03"
           ELSE RefreshRaise("RuntimeError")
  /\ UNCHANGED <<refreshSide, in_events, out_merged, refresh_out, refresh_args,
                 refresh_before, refresh_after, refresh_merged, normVars, marker,
                 localVars, pc, err, fileVars, envVars, last_nonblank, exit_code>>

\* lines 234-235, run_step(STEP03): the step's process is started
RefreshStep03 ==
  /\ refresh_pc = "step03"
  /\ refresh_pc' = "step03_running"
  /\ Fresh
  /\ pc' = "start"
  /\ before' = Snapshot
  /\ step_result' = "running"
  /\ UNCHANGED <<refreshSide, in_events, out_merged, refresh_out, refresh_args,
                 refresh_before, refresh_after, refresh_merged, refresh_stats,
                 normVars, docVars, fileVars, stdin, caller, runs, last_nonblank>>

\* lines 235-239: run_step returns, or raises RuntimeError for a failed step
RefreshStep03Done ==
  /\ refresh_pc = "step03_running"
  /\ step_result # "running"
  /\ IF step_result = "ok"
     THEN /\ refresh_stats' = [refresh_stats EXCEPT !.step03_ok = TRUE]
          /\ refresh_pc' = "load_after"
     ELSE RefreshRaise("RuntimeError")
  /\ UNCHANGED <<refreshSide, in_events, out_merged, refresh_out, refresh_args,
                 refresh_before, refresh_after, refresh_merged, normVars, docVars,
                 localVars, pc, err, fileVars, envVars, last_nonblank, exit_code>>

\* lines 241-249: AFTER is loaded from IN_EVENTS and saved
RefreshLoadAfter ==
  /\ refresh_pc = "load_after"
  /\ IF ~load_events(in_events).ok
     THEN RefreshRaise(load_events(in_events).err)
            /\ UNCHANGED <<refresh_after, refresh_out>>
     ELSE /\ refresh_after' = load_events(in_events).rows
          /\ refresh_out' = [refresh_out EXCEPT
                               !.events_after = StoreFile(refresh_after'),
                               !.kept_after = IF refresh_args.keep_after
                                              THEN StoreFile(refresh_after') ELSE @]
          /\ refresh_pc' = "merge"
          /\ UNCHANGED refresh_stats
  /\ UNCHANGED <<refreshSide, in_events, out_merged, refresh_args, refresh_before,
                 refresh_merged, normVars, docVars, localVars, pc, err, fileVars,
                 envVars, last_nonblank, exit_code>>

\* lines 260-287: OUT_META is written and main returns
RefreshMeta ==
  /\ refresh_pc = "meta"
  /\ refresh_out' = [refresh_out EXCEPT !.meta = [exists |-> TRUE]]
  /\ refresh_pc' = "done"
  /\ UNCHANGED <<refreshSide, in_events, out_merged, refresh_args, refresh_before,
                 refresh_after, refresh_merged, refresh_stats, normVars, docVars,
                 localVars, pc, err, fileVars, envVars, last_nonblank, exit_code>>

\* lines 291-298: the trace goes to OUT_ERR and input() waits; at end of
\* file it raises EOFError, which nothing catches
RefreshExcept ==
  /\ refresh_pc = "except"
  /\ refresh_out' = [refresh_out EXCEPT
                       !.err = [exists |-> TRUE, trace |-> refresh_stats.err]]
  /\ refresh_stats' = [refresh_stats EXCEPT
                         !.exit_code = IF stdin = "line" THEN 0 ELSE 1]
  /\ refresh_pc' = "exited"
  /\ UNCHANGED <<refreshSide, in_events, out_merged, refresh_args, refresh_before,
                 refresh_after, refresh_merged, normVars, docVars, localVars, pc,
                 err, fileVars, envVars, last_nonblank, exit_code>>

NextRefresh ==
  \/ RefreshLoadBefore
  \/ RefreshStep02
  \/ RefreshStep03
  \/ Start
  \/ Extract
  \/ Normalize
  \/ Decode
  \/ Flatten
  \/ Merge
  \/ WriteJsonOpen
  \/ WriteJsonFlush
  \/ WriteJsonClose
  \/ WriteCsv
  \/ WriteMeta
  \/ Finish
  \/ ExceptHandler
  \/ Input
  \/ Crash
  \/ run_step
  \/ RefreshStep03Done
  \/ RefreshLoadAfter
  \/ RefreshMerge
  \/ RefreshMeta
  \/ RefreshExcept

SpecRefresh == InitRefresh /\ [][NextRefresh]_vars

(***************************************************************************)
(* 20_make_risk_windows.py: build_windows, lines 93-136, merge_overlaps,   *)
(* lines 139-177, and main, lines 180-217.  A Window keeps the fields that *)
(* the merge reads or joins; start_iso_bkk and end_iso_bkk are functions   *)
(* of the two epochs, source and soloUrl are copied.                       *)
(***************************************************************************)
upper_char(c) ==
  IF \E n \in 1..26 : LowerSeq[n] = c
  THEN UpperSeq[CHOOSE n \in 1..26 : LowerSeq[n] = c] ELSE c
upper(s) == [n \in 1..Len(s) |-> upper_char(s[n])]

\* (v or ""): the text, or AttributeError for a true value that is no string
or_empty(v) ==
  IF ~truthy(v) THEN [ok |-> TRUE, s |-> <<>>]
  ELSE IF v.t = "str" THEN [ok |-> TRUE, s |-> v.s]
  ELSE [ok |-> FALSE, s |-> <<>>]

\* DEFAULT_RULES_MINUTES, lines 37-41
DEFAULT_RULES_MINUTES ==
  [impact \in {IMPACT_HIGH, IMPACT_MEDIUM, IMPACT_LOW} |->
     IF impact = IMPACT_HIGH THEN [pre |-> 60, post |-> 30]
     ELSE IF impact = IMPACT_MEDIUM THEN [pre |-> 30, post |-> 15]
     ELSE [pre |-> 0, post |-> 0]]

\* parse_pair_to_currencies(DEFAULT_PAIR), lines 73-76: the two halves of
\* "EURUSD"
DEFAULT_CURRENCIES == {<<"E","U","R">>, <<"U","S","D">>}

\* lines 97-126 for one event whose two integers and three texts are given:
\* no window when the impact has no rule or a rule of zero minutes; the
\* epochs of t - pre minutes and t + post minutes
window_of(event_id, epoch, currency, impact, name, rules) ==
  IF impact \notin DOMAIN rules THEN <<>>
  ELSE IF rules[impact].pre = 0 /\ rules[impact].post = 0 THEN <<>>
  ELSE <<[event_id |-> event_id, currency |-> currency, impact |-> impact,
          name |-> name, dateline_epoch |-> epoch,
          start_epoch |-> epoch - 60 * rules[impact].pre,
          end_epoch |-> epoch + 60 * rules[impact].post]>>

\* lines 97-107 for one event: the windows it adds (none when int() fails),
\* or AttributeError
event_windows(event_id, epoch, currency, impact, name, rules) ==
  IF ~event_id.ok \/ ~epoch.ok THEN [ok |-> TRUE, windows |-> <<>>]
  ELSE IF ~currency.ok \/ ~impact.ok \/ ~name.ok THEN [ok |-> FALSE, windows |-> <<>>]
  ELSE [ok |-> TRUE,
        windows |-> window_of(event_id.n, epoch.n, strip(upper(currency.s)),
                              strip(lower(impact.s)), strip(name.s), rules)]

RECURSIVE build_windows_loop(_, _, _)
RECURSIVE windows_added(_, _, _, _)
build_windows_loop(windows, events, rules) ==
  IF events = <<>> THEN [ok |-> TRUE, windows |-> windows]
  ELSE windows_added(windows,
                     event_windows(py_int(get(Head(events), "event_id")),
                                   py_int(get(Head(events), "dateline_epoch")),
                                   or_empty(get(Head(events), "currency")),
                                   or_empty(get(Head(events), "impact")),
                                   or_empty(get(Head(events), "name")), rules),
                     Tail(events), rules)

windows_added(windows, added, events, rules) ==
  IF ~added.ok THEN added
  ELSE build_windows_loop(windows \o added.windows, events, rules)

\* a < b for two texts of capital letters
RECURSIVE str_lt(_, _)
str_lt(a, b) ==
  IF b = <<>> THEN FALSE
  ELSE IF a = <<>> THEN TRUE
  ELSE IF Head(a) = Head(b) THEN str_lt(Tail(a), Tail(b))
  ELSE (CHOOSE n \in 1..26 : UpperSeq[n] = Head(a))
         < (CHOOSE n \in 1..26 : UpperSeq[n] = Head(b))

\* line 135: (start_epoch, end_epoch, currency) of a <= that of b
window_le(a, b) ==
  \/ a.start_epoch < b.start_epoch
  \/ /\ a.start_epoch = b.start_epoch
     /\ \/ a.end_epoch < b.end_epoch
        \/ a.end_epoch = b.end_epoch /\ ~str_lt(b.currency, a.currency)

\* windows.sort(key=...): stable and ascending
RECURSIVE windows_insert(_, _)
windows_insert(done, w) ==
  IF done = <<>> THEN <<w>>
  ELSE IF window_le(Head(done), w)
    THEN <<Head(done)>> \o windows_insert(Tail(done), w)
  ELSE <<w>> \o done

RECURSIVE windows_sorted(_, _)
windows_sorted(done, windows) ==
  IF windows = <<>> THEN done
  ELSE windows_sorted(windows_insert(done, Head(windows)), Tail(windows))

windows_built(built) ==
  IF built.ok THEN [ok |-> TRUE, windows |-> windows_sorted(<<>>, built.windows)]
  ELSE built

build_windows(events, rules) == windows_built(build_windows_loop(<<>>, events, rules))

min(a, b) == IF a <= b THEN a ELSE b
max(a, b) == IF a >= b THEN a ELSE b

\* lines 149-175, one pass of the loop
RECURSIVE merge_overlaps_loop(_, _, _)
merge_overlaps_loop(merged, cur, windows) ==
  IF windows = <<>> THEN Append(merged, cur)
  ELSE IF Head(windows).currency = cur.currency
            /\ Head(windows).start_epoch <= cur.end_epoch
    THEN merge_overlaps_loop(
           merged,
           [cur EXCEPT !.name = cur.name \o <<" ", "|", " ">> \o Head(windows).name,
                       !.start_epoch = min(cur.start_epoch, Head(windows).start_epoch),
                       !.end_epoch = max(cur.end_epoch, Head(windows).end_epoch)],
           Tail(windows))
  ELSE merge_overlaps_loop(Append(merged, cur), Head(windows), Tail(windows))

merge_overlaps(windows) ==
  IF windows = <<>> THEN <<>>
  ELSE merge_overlaps_loop(<<>>, Head(windows), Tail(windows))

MaxRiskEvents == 3

risk_event(event_id, epoch, currency, impact) ==
  [event_id |-> event_id, dateline_epoch |-> VInt(epoch), currency |-> currency,
   impact |-> impact, name |-> VStr(<<"n">>)]

RiskEvents ==
  {risk_event(VInt(1), epoch, VStr(currency), VStr(impact)) :
     epoch \in {3600, 3700, 5400}, currency \in DEFAULT_CURRENCIES,
     impact \in {IMPACT_HIGH, IMPACT_MEDIUM}}
    \cup {risk_event(VInt(2), 3600, VStr(<<"U","S","D">>), VStr(IMPACT_LOW)),
          risk_event(VInt(3), 20000, VStr(<<"u","s","d"," ">>), VStr(<<"H","i","g","h">>)),
          risk_event(VInt(4), 3600, VStr(<<"J","P","Y">>), VStr(IMPACT_HIGH)),
          risk_event(None, 3600, VStr(<<"U","S","D">>), VStr(IMPACT_HIGH)),
          risk_event(VInt(5), 3600, VInt(1), VStr(IMPACT_HIGH))}

InitWindows ==
  /\ in_events \in {NoFile, BrokenFile("not_list")}
                     \cup {StoreFile(r) : r \in RowSeqs(RiskEvents, MaxRiskEvents)}
  /\ risk_out = NoRiskOut
  /\ risk_pc = "start"
  /\ out_merged = NoFile
  /\ refresh_out = NoRefreshOut
  /\ refresh_args = [keep_after |-> FALSE, overwrite_events |-> FALSE]
  /\ RefreshLocalsFresh
  /\ refresh_pc = "idle"
  /\ visited = {}
  /\ PipeIdle
  /\ RetryIdle
  /\ NormIdle
  /\ DocIdle
  /\ LocalsFresh
  /\ NoOutputs
  /\ before = Snapshot
  /\ last_nonblank = <<>>
  /\ stdin \in {"line", "eof"}
  /\ caller = "none"
  /\ step_result = "running"
  /\ runs = 1
  /\ pc = "idle"

\* line 189: the events whose currency is one of the pair's, or
\* AttributeError
RECURSIVE filtered_events(_, _, _)
filtered_events(kept, events, currencies) ==
  IF events = <<>> THEN [ok |-> TRUE, events |-> kept]
  ELSE IF ~or_empty(get(Head(events), "currency")).ok
    THEN [ok |-> FALSE, events |-> <<>>]
  ELSE filtered_events(
         IF strip(upper(or_empty(get(Head(events), "currency")).s)) \in currencies
         THEN Append(kept, Head(events)) ELSE kept,
         Tail(events), currencies)

\* lines 191-192 on the filtered events
windows_of_filtered(filtered) ==
  IF filtered.ok THEN build_windows(filtered.events, DEFAULT_RULES_MINUTES)
  ELSE [ok |-> FALSE, windows |-> <<>>]

\* lines 194-212: OUT_WINDOWS and OUT_META
risk_written(events, filtered, windows, windows_out) ==
  [risk_out EXCEPT
     !.windows = [exists |-> TRUE, windows |-> windows_out],
     !.meta = [exists |-> TRUE, events_in |-> Len(events),
               events_filtered |-> Len(filtered), windows_raw |-> Len(windows),
               windows_output |-> Len(windows_out)]]

RiskRaise(kind) ==
  /\ risk_out' = [risk_out EXCEPT !.err = [exists |-> FALSE, trace |-> kind]]
  /\ risk_pc' = "except"

MakeWindowsFrom(events, filtered, built) ==
  IF built.ok
  THEN /\ risk_out' = risk_written(events, filtered.events, built.windows,
                                   merge_overlaps(built.windows))
       /\ risk_pc' = "done"
  ELSE RiskRaise("AttributeError")

\* main(pair=DEFAULT_PAIR, do_merge=True), lines 180-217
MakeWindows ==
  /\ risk_pc = "start"
  /\ IF ~in_events.exists THEN RiskRaise("FileNotFoundError")
     ELSE IF ~load_events(in_events).ok THEN RiskRaise(load_events(in_events).err)
     ELSE \E filtered \in {filtered_events(<<>>, in_events.rows, DEFAULT_CURRENCIES)} :
            MakeWindowsFrom(in_events.rows, filtered, windows_of_filtered(filtered))
  /\ UNCHANGED <<riskSide, normVars, docVars, localVars, pc, err, fileVars, envVars,
                 last_nonblank, exit_code>>

\* lines 220-229: the trace goes to OUT_ERR and input() waits; at end of
\* file it raises EOFError, which nothing catches
RiskExcept ==
  /\ risk_pc = "except"
  /\ risk_out' = [risk_out EXCEPT !.err.exists = TRUE]
  /\ exit_code' = IF stdin = "line" THEN 0 ELSE 1
  /\ risk_pc' = "exited"
  /\ UNCHANGED <<riskSide, normVars, docVars, localVars, pc, err, fileVars, envVars,
                 last_nonblank>>

NextWindows == MakeWindows \/ RiskExcept

SpecWindows == InitWindows /\ [][NextWindows]_vars

(***************************************************************************)
(* The store under runs whose documents decode to calendars with impact    *)
(* labels: main, lines 457-522, run again and again from an empty store    *)
(***************************************************************************)
MaxScoreRuns == 2

scored_event(event_id, epoch, impactName) ==
  VDict(<<Item(K_id, VInt(event_id)), Item(K_dateline, VInt(epoch)),
          Item(K_impactName, impactName)>>)

ScoreCalendars ==
  {calendar(<<scored_event(1, 1, impactName)>>) :
     impactName \in {None, VStr(<<>>), VStr(<<"H","i","g","h">>), VStr(IMPACT_LOW),
                     VStr(<<"x">>)}}
    \cup {calendar(<<scored_event(1, 1, VStr(IMPACT_MEDIUM)),
                     scored_event(2, 1, VStr(IMPACT_HIGH))>>)}

InitScore ==
  /\ NoOutputs
  /\ DocIdle
  /\ js_obj = LocateError("")
  /\ json_text = <<>>
  /\ data \in {Decoded(c, 0) : c \in ScoreCalendars}
  /\ flat = <<>>
  /\ existing_rows = <<>>
  /\ rows = <<>>
  /\ err = ""
  /\ exit_code = 0
  /\ pc = "flatten"
  /\ before = Snapshot
  /\ last_nonblank = <<>>
  /\ stdin = "eof"
  /\ caller = "none"
  /\ step_result = "running"
  /\ runs = 1
  /\ NormIdle
  /\ SideIdle

\* the script is run again, lines 445-455, on a document that decodes to a
\* calendar
ScoreRerun ==
  /\ pc = "exited"
  /\ runs < MaxScoreRuns
  /\ runs' = runs + 1
  /\ js_obj' = LocateError("")
  /\ json_text' = <<>>
  /\ data' \in {Decoded(c, 0) : c \in ScoreCalendars}
  /\ flat' = <<>>
  /\ existing_rows' = <<>>
  /\ rows' = <<>>
  /\ err' = ""
  /\ exit_code' = 0
  /\ pc' = "flatten"
  /\ before' = Snapshot
  /\ UNCHANGED <<sideVars, docVars, fileVars, stdin, caller, step_result,
                 last_nonblank, normVars>>

NextScore ==
  \/ Flatten
  \/ Merge
  \/ WriteJsonOpen
  \/ WriteJsonFlush
  \/ WriteJsonClose
  \/ WriteCsv
  \/ WriteMeta
  \/ Finish
  \/ ScoreRerun

SpecScore == InitScore /\ [][NextScore]_vars

(***************************************************************************)
(* pipeline.py: load_steps, lines 53-61, run_step, lines 64-68, and main,  *)
(* lines 195-235.  Step 03 runs as the process modelled above; the other   *)
(* steps are modelled by how their processes end: main returns, or it      *)
(* raises, and then the script's handler waits in input() (01_save_session *)
(* has no handler and ends with status 1).  Step 02 writes the document.   *)
(***************************************************************************)
STEP01 == "01_save_session"
STEP02 == "02_capture_document_html"
STEP03 == "03_extract_from_document"
SELECT_EVENTS == "select_events"
STEP20 == "20_make_risk_windows"
STEP30 == "30_refresh_actuals"
STEP40 == "40_compute_surprise"

\* DEFAULT_STEPS, lines 42-50, in the order of the dict
DEFAULT_STEPS ==
  <<[name |-> STEP01, default |-> FALSE],
    [name |-> STEP02, default |-> TRUE],
    [name |-> STEP03, default |-> TRUE],
    [name |-> SELECT_EVENTS, default |-> TRUE],
    [name |-> STEP20, default |-> FALSE],
    [name |-> STEP30, default |-> FALSE],
    [name |-> STEP40, default |-> FALSE]>>

\* steps_cfg.get(name, default) for the mapping read from the file, whose
\* entries are kept in the order they are written in
steps_cfg_get(steps_cfg, name, default) ==
  IF \E n \in 1..Len(steps_cfg) : steps_cfg[n].name = name
  THEN steps_cfg[CHOOSE n \in 1..Len(steps_cfg) : steps_cfg[n].name = name].value
  ELSE VBool(default)

\* load_steps: no file, no mapping
load_steps(cfg) ==
  [n \in 1..Len(DEFAULT_STEPS) |->
     [name |-> DEFAULT_STEPS[n].name,
      enabled |-> truthy(steps_cfg_get(IF cfg.exists THEN cfg.steps ELSE <<>>,
                                       DEFAULT_STEPS[n].name,
                                       DEFAULT_STEPS[n].default))]]

Config(steps_cfg) == [exists |-> TRUE, steps |-> steps_cfg]

Entry(name, value) == [name |-> name, value |-> value]

PipeConfigs ==
  {NoConfig,
   Config(<<>>),
   Config(<<Entry(STEP40, VBool(TRUE)), Entry(STEP30, VBool(TRUE)),
            Entry(STEP20, VBool(TRUE)), Entry(SELECT_EVENTS, VBool(TRUE)),
            Entry(STEP03, VBool(TRUE)), Entry(STEP02, VBool(TRUE)),
            Entry(STEP01, VBool(TRUE))>>),
   Config(<<Entry(STEP03, VBool(TRUE)), Entry(STEP02, VBool(FALSE))>>),
   Config(<<Entry(STEP20, VBool(TRUE)), Entry(SELECT_EVENTS, None),
            Entry(STEP02, VBool(FALSE)), Entry(STEP03, VBool(FALSE))>>)}

PipeDocs ==
  {InputFile(TRUE, <<"<", "p", ">">>, NoTree)}
    \cup {InputFile(TRUE, document_of(c), c) :
            c \in {calendar(<<calendar_event(1, 1, VStr(<<"a">>))>>)}}

InitPipe ==
  /\ pipe_cfg \in PipeConfigs
  /\ pipe = [PipeFresh EXCEPT !.pc = "load"]
  /\ pipe_ran = <<>>
  /\ PipeSideIdle
  /\ NoOutputs
  /\ DocIdle
  /\ LocalsFresh
  /\ pc = "idle"
  /\ before = Snapshot
  /\ last_nonblank = <<>>
  /\ stdin \in {"line", "eof"}
  /\ caller = "pipeline"
  /\ step_result = "running"
  /\ runs = 1
  /\ NormIdle

\* line 196
PipeLoadSteps ==
  /\ pipe.pc = "load"
  /\ pipe' = [pipe EXCEPT !.steps = load_steps(pipe_cfg), !.pc = "loop"]
  /\ UNCHANGED <<pipe_cfg, pipe_ran, pipeSide, normVars, docVars, localVars, pc, err,
                 fileVars, envVars, last_nonblank, exit_code>>

\* lines 205-208: a step that is not enabled is skipped
PipeSkip ==
  /\ pipe.pc = "loop"
  /\ pipe.at <= Len(pipe.steps)
  /\ ~pipe.steps[pipe.at].enabled
  /\ pipe' = [pipe EXCEPT !.at = pipe.at + 1]
  /\ UNCHANGED <<pipe_cfg, pipe_ran, pipeSide, normVars, docVars, localVars, pc, err,
                 fileVars, envVars, last_nonblank, exit_code>>

\* the exit status of a step's process whose main raised or did not
step_exit(name, failed) ==
  IF ~failed THEN 0
  ELSE IF name = STEP01 THEN 1
  ELSE IF stdin = "line" THEN 0 ELSE 1

\* lines 210-222 once the step's process has ended with a status:
\* subprocess.run(check=True) raises on a status that is not 0, the result
\* is appended, and a failure ends the loop
step_ended(p, name, status) ==
  IF status = 0
  THEN [p EXCEPT !.results = Append(p.results, [name |-> name, status |-> "success"]),
                 !.at = p.at + 1, !.pc = "loop"]
  ELSE [p EXCEPT !.results = Append(p.results, [name |-> name, status |-> "failed"]),
                 !.error_message = TRUE, !.pc = "end"]

\* lines 209-222 for a step other than step 03
PipeRunStep ==
  /\ pipe.pc = "loop"
  /\ pipe.at <= Len(pipe.steps)
  /\ pipe.steps[pipe.at].enabled
  /\ pipe.steps[pipe.at].name # STEP03
  /\ \E failed \in BOOLEAN :
       /\ pipe_ran' = Append(pipe_ran,
                             [name |-> pipe.steps[pipe.at].name, failed |-> failed,
                              exit_code |-> step_exit(pipe.steps[pipe.at].name, failed)])
       /\ pipe' = step_ended(pipe, pipe.steps[pipe.at].name,
                             step_exit(pipe.steps[pipe.at].name, failed))
       /\ IF pipe.steps[pipe.at].name = STEP02 /\ ~failed
          THEN \E doc \in PipeDocs :
                 /\ in_html_exists' = TRUE
                 /\ html' = doc.html
                 /\ tree' = doc.tree
          ELSE UNCHANGED <<in_html_exists, html, tree>>
  /\ UNCHANGED <<pipe_cfg, pipeSide, normVars, marker, localVars, pc, err, fileVars,
                 envVars, last_nonblank, exit_code>>

\* lines 209-211 for step 03: its process is started
PipeStartStep03 ==
  /\ pipe.pc = "loop"
  /\ pipe.at <= Len(pipe.steps)
  /\ pipe.steps[pipe.at].enabled
  /\ pipe.steps[pipe.at].name = STEP03
  /\ pipe' = [pipe EXCEPT !.pc = "run_step"]
  /\ Fresh
  /\ pc' = "start"
  /\ before' = Snapshot
  /\ step_result' = "running"
  /\ UNCHANGED <<pipe_cfg, pipe_ran, pipeSide, normVars, docVars, fileVars, stdin,
                 caller, runs, last_nonblank>>

\* lines 211-222 for step 03, whose run_step has observed the exit status
PipeStep03Ended ==
  /\ pipe.pc = "run_step"
  /\ step_result # "running"
  /\ pipe_ran' = Append(pipe_ran,
                        [name |-> STEP03, failed |-> (err # "" \/ pc = "crashed"),
                         exit_code |-> exit_code])
  /\ pipe' = step_ended(pipe, STEP03, exit_code)
  /\ UNCHANGED <<pipe_cfg, pipeSide, normVars, docVars, localVars, pc, err, fileVars,
                 envVars, last_nonblank, exit_code>>

\* lines 223-235: the status is reported and main returns, or raises
\* SystemExit(1) when a step has failed
PipeEnd ==
  /\ \/ pipe.pc = "end"
     \/ pipe.pc = "loop" /\ pipe.at > Len(pipe.steps)
  /\ pipe' = [pipe EXCEPT !.status = IF pipe.error_message THEN "ERROR" ELSE "OK",
                          !.exit_code = IF pipe.error_message THEN 1 ELSE 0,
                          !.pc = "exited"]
  /\ UNCHANGED <<pipe_cfg, pipe_ran, pipeSide, normVars, docVars, localVars, pc, err,
                 fileVars, envVars, last_nonblank, exit_code>>

NextPipe ==
  \/ PipeLoadSteps
  \/ PipeSkip
  \/ PipeRunStep
  \/ PipeStartStep03
  \/ Start
  \/ Extract
  \/ Normalize
  \/ Decode
  \/ Flatten
  \/ Merge
  \/ WriteJsonOpen
  \/ WriteJsonFlush
  \/ WriteJsonClose
  \/ WriteCsv
  \/ WriteMeta
  \/ Finish
  \/ ExceptHandler
  \/ Input
  \/ Crash
  \/ run_step
  \/ PipeStep03Ended
  \/ PipeEnd

SpecPipe == InitPipe /\ [][NextPipe]_vars

(***************************************************************************)
(* retry: calendar/utils.py, lines 97-107, and, with the same text,        *)
(* mt5/utils.py, lines 171-181; fred/pipeline.py calls it at lines 87-98   *)
(* with the attempts of its configuration.  The n-th call of fn returns a  *)
(* value or raises an exception, each marked with n.                       *)
(***************************************************************************)
MaxAttempts == 3

Returns(n) == [ok |-> TRUE, value |-> Outcome("value", n), err |-> Outcome("None", 0)]
Raises(n) == [ok |-> FALSE, value |-> Outcome("", 0), err |-> Outcome("error", n)]

RECURSIVE FnBehaviours(_)
FnBehaviours(n) ==
  IF n = 0 THEN {<<>>}
  ELSE {Append(b, o) : b \in FnBehaviours(n - 1), o \in {Returns(n), Raises(n)}}

InitRetry ==
  /\ retry_fn \in FnBehaviours(MaxAttempts)
  /\ \E attempts \in 0..MaxAttempts, sleep_seconds \in {0, 2} :
       retry_state = [attempts |-> attempts, sleep_seconds |-> sleep_seconds,
                      i |-> 1, last_err |-> Outcome("None", 0), calls |-> 0,
                      sleeps |-> <<>>, pc |-> "loop",
                      returned |-> Outcome("", 0), raised |-> Outcome("", 0)]
  /\ RetrySideIdle
  /\ NormIdle
  /\ ScriptIdle

\* lines 100-106, one pass of the loop: fn is called; its value is returned,
\* or its exception kept and, before a further attempt, time.sleep called
retry_pass(st, outcome) ==
  IF outcome.ok
  THEN [st EXCEPT !.calls = st.calls + 1, !.returned = outcome.value,
                  !.pc = "returned"]
  ELSE [st EXCEPT !.calls = st.calls + 1, !.last_err = outcome.err,
                  !.sleeps = IF st.i < st.attempts
                             THEN Append(st.sleeps, [after_call |-> st.calls + 1,
                                                     seconds |-> st.sleep_seconds])
                             ELSE st.sleeps,
                  !.i = st.i + 1]

RetryAttempt ==
  /\ retry_state.pc = "loop"
  /\ retry_state.i <= retry_state.attempts
  /\ retry_state' = retry_pass(retry_state, retry_fn[retry_state.calls + 1])
  /\ UNCHANGED <<retry_fn, retrySide, normVars, docVars, localVars, pc, err,
                 fileVars, envVars, last_nonblank, exit_code>>

\* line 107, raise last_err: raising None is a TypeError
RetryRaise ==
  /\ retry_state.pc = "loop"
  /\ retry_state.i > retry_state.attempts
  /\ retry_state' = [retry_state EXCEPT
                       !.raised = IF retry_state.last_err.kind = "None"
                                  THEN Outcome("TypeError", 0)
                                  ELSE retry_state.last_err,
                       !.pc = "raised"]
  /\ UNCHANGED <<retry_fn, retrySide, normVars, docVars, localVars, pc, err,
                 fileVars, envVars, last_nonblank, exit_code>>

NextRetry == RetryAttempt \/ RetryRaise

SpecRetry == InitRetry /\ [][NextRetry]_vars

(***************************************************************************)
(* Properties                                                              *)
(***************************************************************************)
\* C1: round trip: a well-formed value, written as a JavaScript literal and
\* put after the marker, comes back from extract_object_literal ->
\* js_object_to_json_text -> json.loads as a structurally equal value.
C1_RoundTrip ==
  (tree # NoTree /\ pc \in {"flatten", "except"}) => (data.ok /\ data.val = tree)

\* C2: running the normalizer on its own output changes nothing:
\* js_object_to_json_text(js_object_to_json_text(L)) = js_object_to_json_text(L)
\* for every input text L.
C2_Idempotent == norm_pc = "twice" => norm_twice = norm_once

\* C3: brace-in-string safety: when the text from the first '{' after the
\* marker is brace-balanced outside quoted strings, extract_object_literal
\* returns exactly the text from that '{' to the '}' that brings the depth
\* counted outside strings back to zero; braces inside single- or
\* double-quoted strings (with backslash escapes) do not count.
C3_BraceInStringSafe ==
  pc # "extract" =>
    LET j == CHOOSE n \in (Len(MARKER) + 1)..(Len(html) + 1) :
               /\ n <= Len(html) => html[n] = "{"
               /\ \A m \in (Len(MARKER) + 1)..(n - 1) : html[m] # "{"
        rest == SubSeq(html, j, Len(html))
        \* the scanner state after the first p characters of rest
        st[p \in 0..Len(rest)] ==
          IF p = 0 THEN [in |-> FALSE, q |-> "", esc |-> FALSE]
          ELSE LET a == st[p - 1]
                   ch == rest[p]
               IN IF a.in /\ a.esc THEN [a EXCEPT !.esc = FALSE]
                  ELSE IF a.in /\ ch = BS THEN [a EXCEPT !.esc = TRUE]
                  ELSE IF a.in /\ ch = a.q THEN [a EXCEPT !.in = FALSE]
                  ELSE IF ~a.in /\ ch \in {SQ, DQ} THEN [a EXCEPT !.in = TRUE, !.q = ch]
                  ELSE a
        outside(p) == ~st[p - 1].in
        depth[p \in 0..Len(rest)] ==
          IF p = 0 THEN 0
          ELSE depth[p - 1]
                 + (IF outside(p) /\ rest[p] = "{" THEN 1 ELSE 0)
                 - (IF outside(p) /\ rest[p] = "}" THEN 1 ELSE 0)
        balanced == {p \in 1..Len(rest) : depth[p] = 0}
    IN balanced # {} =>
         LET k == CHOOSE p \in balanced : \A r \in balanced : p <= r
         IN js_obj = Located(SubSeq(rest, 1, k))

\* a located literal that holds a string with an escaped quote and a brace
C3_Witness ==
  /\ pc = "normalize"
  /\ \E n \in 1..(Len(js_obj.text) - 3) :
       /\ js_obj.text[n] = BS
       /\ js_obj.text[n + 1] = SQ
       /\ js_obj.text[n + 2] = "}"
       /\ js_obj.text[n + 3] = SQ

\* the states of a run in which line 504 has completed
Persisted == pc \in {"write_csv", "write_meta", "done", "exited"}

\* the index of the last row of rs whose key is key, 0 if there is none
last_with_key(rs, key) ==
  LET S == {m \in 1..Len(rs) : key_of(rs[m]) = key}
  IN IF S = {} THEN 0 ELSE CHOOSE m \in S : \A k \in S : k <= m

\* C4: blank never erases: when merge_events merges an incoming record into
\* an existing record with the same (event_id, epoch), every field that the
\* incoming record lacks or holds blank (null, "", or whitespace only) keeps
\* the existing record's value in the merged record.
C4_BlankNeverErases ==
  pc = "write_json" =>
    \A n \in 1..Len(flat) :
      LET key == key_of(flat[n])
          e == last_with_key(existing_rows, key)
          r == last_with_key(rows, key)
      IN (key # NoKey /\ e # 0) =>
           \A f \in DOMAIN existing_rows[e] :
             (f \notin DOMAIN flat[n] \/ is_blank(flat[n][f])) =>
               /\ r # 0
               /\ f \in DOMAIN rows[r]
               /\ rows[r][f] = existing_rows[e][f]

\* C5: non-blank wins, per field: after incoming records with one key have
\* been merged in sequence, each field of the stored record holds the last
\* non-blank (not null, not "", not whitespace only) value that came in for it.
C5_LastNonBlankWins ==
  pc = "write_json" =>
    \A p \in DOMAIN last_nonblank :
      LET r == last_with_key(rows, p[1])
      IN /\ r # 0
         /\ p[2] \in DOMAIN rows[r]
         /\ rows[r][p[2]] = last_nonblank[p]

\* C6: store uniqueness: after any sequence of runs, each merging a flattened
\* record set into whatever the store held before (duplicate keys included),
\* the persisted store holds one record per key (event_id, epoch): every
\* record has a key and no two records share one.
C6_StoreUnique ==
  Persisted =>
    /\ out_events_json.kind = "list"
    /\ \A m \in 1..Len(out_events_json.rows) :
         /\ key_of(out_events_json.rows[m]) # NoKey
         /\ \A n \in 1..Len(out_events_json.rows) :
              key_of(out_events_json.rows[m]) = key_of(out_events_json.rows[n])
                => m = n

\* a run has persisted a store although the store it found held two records
\* with one key, and the incoming set brought that key again
C6_Witness ==
  /\ Persisted
  /\ \E m, n \in 1..Len(before.json.rows) :
       /\ m # n
       /\ key_of(before.json.rows[m]) # NoKey
       /\ key_of(before.json.rows[m]) = key_of(before.json.rows[n])
       /\ \E k \in 1..Len(flat) : key_of(flat[k]) = key_of(before.json.rows[m])
  /\ Len(out_events_json.rows) >= 2

\* C7: ordering: after every merge (merge_events, then sort_events_desc) the
\* records are sorted non-increasing on (epoch, event_id), compared
\* lexicographically.
C7_SortedDesc ==
  pc = "write_json" =>
    \A n \in 1..(Len(rows) - 1) :
      LET a == rows[n]
          b == rows[n + 1]
      IN \/ a.dateline_epoch.n > b.dateline_epoch.n
         \/ /\ a.dateline_epoch.n = b.dateline_epoch.n
            /\ a.event_id.n >= b.event_id.n

\* a merge has produced three records, two of one epoch, from an existing
\* store and an incoming set that both contributed
C7_Witness ==
  /\ pc = "write_json"
  /\ Len(rows) >= 3
  /\ \E n \in 1..(Len(rows) - 1) :
       /\ rows[n].dateline_epoch.n = rows[n + 1].dateline_epoch.n
       /\ rows[n].event_id.n > rows[n + 1].event_id.n
  /\ existing_rows # <<>>
  /\ flat # <<>>
  /\ sort_events_desc(existing_rows \o flat) # existing_rows \o flat

\* C8: atomic persistence: at every instant of a run, and after a crash at
\* any point of it, the store file holds either the complete store the run
\* found or the complete new store, never a partial or an empty one.
C8_AtomicPersistence ==
  \/ out_events_json = before.json
  \/ /\ pc \in {"write_csv", "write_meta", "done", "exited", "crashed"}
     /\ out_events_json = StoreFile(rows)

FailureKinds ==
  {"InputMissing", "MarkerNotFound", "ObjectStartNotFound", "UnbalancedLiteral",
   "DecodeError"}

\* C9: a failed run leaves the store untouched: when a run fails with
\* InputMissing, MarkerNotFound, ObjectStartNotFound, UnbalancedLiteral or
\* DecodeError, the store JSON, its CSV mirror and the run metadata are as
\* the run found them, and no record of the failing document is emitted.
C9_FailedRunUntouched ==
  err \in FailureKinds =>
    /\ out_events_json = before.json
    /\ out_events_csv = before.csv
    /\ out_meta = before.meta
    /\ rows = <<>>

\* a run over a store with records has failed to decode and has ended
C9_Witness ==
  /\ err = "DecodeError"
  /\ pc = "exited"
  /\ out_err.exists
  /\ before.json.kind = "list"
  /\ before.json.rows # <<>>

\* C10: error surface: on any fatal error of the script the trace is written
\* to the error file and the process ends with a non-zero exit status, so a
\* caller that runs the script as a step observes the step as failed.
C10_ErrorSurface ==
  (err # "" /\ pc = "exited") =>
    /\ out_err.exists
    /\ exit_code # 0
    /\ step_result \in {"running", "failed"}

\* the positions at which sub occurs in text
occurrences(text, sub) ==
  {p \in 1..(Len(text) - Len(sub) + 1) : SubSeq(text, p, p + Len(sub) - 1) = sub}

\* the least element of a non-empty set of numbers
least(S) == CHOOSE p \in S : \A r \in S : p <= r

\* the string state after reading ch in state a (backslash escapes honoured)
string_state_after(a, ch) ==
  IF a.in /\ a.esc THEN [a EXCEPT !.esc = FALSE]
  ELSE IF a.in /\ ch = BS THEN [a EXCEPT !.esc = TRUE]
  ELSE IF a.in /\ ch = a.q THEN [a EXCEPT !.in = FALSE]
  ELSE IF ~a.in /\ ch \in {SQ, DQ} THEN [a EXCEPT !.in = TRUE, !.q = ch]
  ELSE a

\* the string states after each of the characters lo..hi of text, read from
\* state a
RECURSIVE string_states(_, _, _, _)
string_states(text, a, lo, hi) ==
  IF lo > hi THEN <<>>
  ELSE IF lo = hi THEN <<string_state_after(a, text[lo])>>
  ELSE LET mid == (lo + hi) \div 2
           left == string_states(text, a, lo, mid)
       IN left \o string_states(text, left[Len(left)], mid + 1, hi)

\* for each p, whether the character after the first p characters of text
\* is inside a quoted string
string_state(text) ==
  LET first == [in |-> FALSE, q |-> "", esc |-> FALSE]
      rest == string_states(text, first, 1, Len(text))
  IN [p \in 0..Len(text) |-> IF p = 0 THEN first ELSE rest[p]]

\* the positions of text at which the count of open minus close characters
\* outside quoted strings is zero
balance_points(text, open, close) ==
  LET st == string_state(text)
      depth[p \in 0..Len(text)] ==
        IF p = 0 THEN 0
        ELSE depth[p - 1]
               + (IF ~st[p - 1].in /\ text[p] = open THEN 1 ELSE 0)
               - (IF ~st[p - 1].in /\ text[p] = close THEN 1 ELSE 0)
  IN {p \in 1..Len(text) : depth[p] = 0}

\* the positions of '{' at or after the end of the first occurrence of marker
braces_after_marker ==
  {q \in (least(occurrences(html, marker)) + Len(marker))..Len(html) : html[q] = "{"}

\* C11: locator error outcomes: extract_object_literal fails with
\* MarkerNotFound when the marker does not occur, with ObjectStartNotFound
\* when it occurs and no '{' follows it, with UnbalancedLiteral when the text
\* ends before the depth outside strings is back at zero; no span is returned
\* then, and in every other case a span is returned.
C11_LocatorOutcomes ==
  pc = "located" =>
    IF occurrences(html, marker) = {}
      THEN js_obj = LocateError("MarkerNotFound")
    ELSE IF braces_after_marker = {}
      THEN js_obj = LocateError("ObjectStartNotFound")
    ELSE IF balance_points(SubSeq(html, least(braces_after_marker), Len(html)),
                           "{", "}") = {}
      THEN js_obj = LocateError("UnbalancedLiteral")
    ELSE js_obj.err = "" /\ js_obj.text # <<>>

\* C17: locator start: the span returned by extract_object_literal begins at
\* the first '{' at or after the end of the first occurrence of the marker,
\* never at a '{' inside the marker text.
C17_LocatorStart ==
  (pc = "located" /\ js_obj.err = "") =>
    /\ braces_after_marker # {}
    /\ \E n \in least(braces_after_marker)..Len(html) :
         js_obj.text = SubSeq(html, least(braces_after_marker), n)

\* the event nodes of the decoded document, day by day, in order
RECURSIVE events_of(_)
events_of(days) ==
  IF days = <<>> THEN <<>>
  ELSE iter_items(dict_get(Head(days), K_events, VList(<<>>))) \o events_of(Tail(days))

doc_events == events_of(iter_items(dict_get(data.val, K_days, VList(<<>>))))

\* an event that has an integer id and an integer dateline
identifiable(ev) ==
  /\ dict_get(ev, K_id, Absent).t = "int"
  /\ dict_get(ev, K_dateline, Absent).t = "int"

identity(ev) == <<dict_get(ev, K_id, Absent).n, dict_get(ev, K_dateline, Absent).n>>

\* the positions of the identifiable events that are the first with their pair
first_events ==
  {n \in 1..Len(doc_events) :
     /\ identifiable(doc_events[n])
     /\ \A m \in 1..(n - 1) :
          identifiable(doc_events[m]) => identity(doc_events[m]) # identity(doc_events[n])}

\* C12: intra-document dedupe: the flattener emits exactly one record per
\* distinct (id, dateline) pair among the identifiable events, and that
\* record carries the values of the first event with the pair, in
\* day-then-event order; later events with the pair are discarded.
C12_FirstPerPair ==
  pc = "merge" =>
    /\ Len(rows) = Cardinality(first_events)
    /\ \A n \in first_events :
         \E r \in 1..Len(rows) :
           /\ rows[r].event_id = dict_get(doc_events[n], K_id, None)
           /\ rows[r].dateline_epoch = dict_get(doc_events[n], K_dateline, None)
           /\ rows[r].name = dict_get(doc_events[n], K_name, None)

\* C13: identity skip: an event whose id or dateline is absent or is not an
\* integer (string, fractional number, boolean, null, array, object) gets no
\* record, and the run goes on and succeeds for the other events: every
\* record emitted is the record of an identifiable event.
C13_IdentitySkip ==
  pc # "flatten" =>
    /\ pc = "merge"
    /\ \A r \in 1..Len(rows) :
         \E n \in 1..Len(doc_events) :
           /\ identifiable(doc_events[n])
           /\ rows[r].event_id = dict_get(doc_events[n], K_id, None)
           /\ rows[r].dateline_epoch = dict_get(doc_events[n], K_dateline, None)
           /\ rows[r].name = dict_get(doc_events[n], K_name, None)

\* the one event of the document a run started from
scenario_ev == tree.k[1].val.k[1].val.k[2].val.k[1].val

\* the table high 3, medium 2, low 1, anything else 0
table_value(label) ==
  CASE label = <<"h", "i", "g", "h">> -> 3
    [] label = <<"m", "e", "d", "i", "u", "m">> -> 2
    [] label = <<"l", "o", "w">> -> 1
    [] OTHER -> 0

\* the impact label of an event, case-folded; empty when there is none
folded_label(ev) ==
  IF dict_get(ev, K_impactName, None).t = "str"
  THEN lower(dict_get(ev, K_impactName, None).s) ELSE <<>>

\* C14: end-to-end scenario: a document that holds one day with one event
\* (integer id and dateline) gives exactly one flattened record whose
\* event_id, epoch, currency, name, actual and forecast are the event's
\* values, whose impact is the case-folded impact label and whose
\* impact_score is that label's table value.
C14_Scenario ==
  pc \notin {"extract", "normalize", "decode", "flatten"} =>
    /\ pc = "merge"
    /\ Len(rows) = 1
    /\ rows[1].event_id = dict_get(scenario_ev, K_id, None)
    /\ rows[1].dateline_epoch = dict_get(scenario_ev, K_dateline, None)
    /\ rows[1].currency = dict_get(scenario_ev, K_currency, None)
    /\ rows[1].name = dict_get(scenario_ev, K_name, None)
    /\ rows[1].actual = dict_get(scenario_ev, K_actual, None)
    /\ rows[1].forecast = dict_get(scenario_ev, K_forecast, None)
    /\ rows[1].impact = VStr(folded_label(scenario_ev))
    /\ rows[1].impact_score = VInt(table_value(folded_label(scenario_ev)))

\* the spec's input has given its record: event_id 101, epoch 1700000000,
\* impact "high", impact_score 3, currency "USD", name "CPI", actual "3.1%",
\* forecast "3.0%"
C14_Witness ==
  /\ pc = "merge"
  /\ rows = <<[day_label |-> VStr(<<"M", "o", "n">>),
               event_id |-> VInt(101),
               dateline_epoch |-> VInt(1700000000),
               currency |-> VStr(<<"U", "S", "D">>),
               impact |-> VStr(<<"h", "i", "g", "h">>),
               impact_score |-> VInt(3),
               name |-> VStr(<<"C", "P", "I">>),
               actual |-> VStr(<<"3", ".", "1", "%">>),
               forecast |-> VStr(<<"3", ".", "0", "%">>)]>>

\* the content a JavaScript string body denotes: a backslash and the
\* character after it stand for one character, every other character for
\* itself
js_unescaped(body) ==
  LET RECURSIVE go(_)
      go(i) ==
        IF i > Len(body) THEN <<>>
        ELSE IF body[i] = BS /\ i < Len(body)
          THEN <<IF body[i + 1] = "n" THEN NL ELSE body[i + 1]>> \o go(i + 2)
          ELSE <<body[i]>> \o go(i + 1)
  IN go(1)

\* the body with every unescaped double quote preceded by a backslash
dq_escaped(body) ==
  LET RECURSIVE go(_)
      go(i) ==
        IF i > Len(body) THEN <<>>
        ELSE IF body[i] = BS /\ i < Len(body)
          THEN <<body[i], body[i + 1]>> \o go(i + 2)
          ELSE IF body[i] = DQ THEN <<BS, DQ>> \o go(i + 1)
          ELSE <<body[i]>> \o go(i + 1)
  IN go(1)

literal_body(lit) == SubSeq(lit, 2, Len(lit) - 1)

\* C15: for a single-quoted string literal, single_quotes_to_double gives a
\* double-quoted string in which each unescaped double quote is escaped, and
\* strictly decoding that output yields the literal's un-escaped content.
C15_QuoteFidelity ==
  norm_pc = "decoded" =>
    /\ norm_once = <<DQ>> \o dq_escaped(literal_body(norm_in)) \o <<DQ>>
    /\ data.ok
    /\ data.val = VStr(js_unescaped(literal_body(norm_in)))

C15_Witness ==
  /\ norm_pc = "decoded"
  /\ \E i \in 1..Len(norm_in) : norm_in[i] = DQ /\ (i = 1 \/ norm_in[i - 1] # BS)

\* the conversion half of C15 alone
C15_ConversionOnly ==
  norm_pc = "decoded" =>
    norm_once = <<DQ>> \o dq_escaped(literal_body(norm_in)) \o <<DQ>>

\* the value of a sort field is an integer (a boolean is not)
integer_field(row, field) == get(row, field).t = "int"

\* two records have equal epochs: the same integer, or both none
equal_epochs(a, b) ==
  IF integer_field(a, "dateline_epoch") /\ integer_field(b, "dateline_epoch")
  THEN get(a, "dateline_epoch").n = get(b, "dateline_epoch").n
  ELSE ~integer_field(a, "dateline_epoch") /\ ~integer_field(b, "dateline_epoch")

\* C16: in the output of sort_events_desc a record whose epoch is missing or
\* not an integer comes after every record with an integer epoch, and among
\* equal epochs a record whose id is missing or not an integer comes after
\* every record with an integer id.
C16_MissingSortLast ==
  pc = "sorted" =>
    \A m, n \in 1..Len(rows) :
      /\ (integer_field(rows[m], "dateline_epoch")
            /\ ~integer_field(rows[n], "dateline_epoch")) => m < n
      /\ (equal_epochs(rows[m], rows[n])
            /\ integer_field(rows[m], "event_id")
            /\ ~integer_field(rows[n], "event_id")) => m < n

\* a record without an epoch was given first and has been moved behind a
\* record with an integer epoch
C16_Witness ==
  /\ pc = "sorted"
  /\ Len(rows) = 2
  /\ rows # existing_rows
  /\ integer_field(rows[1], "dateline_epoch")
  /\ "dateline_epoch" \notin DOMAIN rows[2]

ident_char(ch) == ch \in Letters \cup Digits \cup {"_"}

\* the last position of the identifier-shaped token that starts at p
token_end(text, p) ==
  CHOOSE e \in p..Len(text) :
    /\ \A q \in p..e : ident_char(text[q])
    /\ e = Len(text) \/ ~ident_char(text[e + 1])

\* the positions before p, and the positions after e, that hold a character
\* other than whitespace
non_space_before(text, p) == {q \in 1..(p - 1) : ~isspace(text[q])}
non_space_after(text, e) == {q \in (e + 1)..Len(text) : ~isspace(text[q])}

greatest(S) == CHOOSE p \in S : \A r \in S : r <= p

\* the position of the colon that follows the token starting at p
\* (whitespace ignored), 0 when something else or nothing follows it
colon_of(text, p) ==
  LET after == non_space_after(text, token_end(text, p))
  IN IF after # {} /\ text[least(after)] = ":" THEN least(after) ELSE 0

\* the start positions of the tokens that are keys: outside strings,
\* identifier-shaped, preceded by '{' or ',' and followed by ':'
key_starts(text) ==
  LET st == string_state(text)
  IN {p \in 1..Len(text) :
        /\ ~st[p - 1].in
        /\ text[p] \in Letters \cup {"_"}
        /\ non_space_before(text, p) # {}
        /\ text[greatest(non_space_before(text, p))] \in {"{", ","}
        /\ colon_of(text, p) # 0}

\* text with every key wrapped in double quotes and nothing else changed
keys_wrapped(text) ==
  LET keys == key_starts(text)
      RECURSIVE go(_)
      go(p) ==
        IF p > Len(text) THEN <<>>
        ELSE IF p \in keys
          THEN <<DQ>> \o SubSeq(text, p, token_end(text, p)) \o <<DQ>>
                 \o go(token_end(text, p) + 1)
          ELSE <<text[p]>> \o go(p + 1)
  IN go(1)

\* text with every key wrapped in double quotes and the whitespace between
\* a key and its colon left out
keys_wrapped_tight(text) ==
  LET keys == key_starts(text)
      RECURSIVE go(_)
      go(p) ==
        IF p > Len(text) THEN <<>>
        ELSE IF p \in keys
          THEN <<DQ>> \o SubSeq(text, p, token_end(text, p)) \o <<DQ, ":">>
                 \o go(colon_of(text, p) + 1)
          ELSE <<text[p]>> \o go(p + 1)
  IN go(1)

\* C18 as stated: quote_unquoted_keys wraps exactly the key tokens in double
\* quotes and copies every other character, whitespace around the key
\* included, unchanged and in order.
C18_KeysWrappedVerbatim ==
  norm_pc = "keys_quoted" => norm_once = keys_wrapped(norm_in)

\* C18 (amended): quote_unquoted_keys wraps exactly the key tokens in double
\* quotes, leaves out the whitespace between a key and its colon, and copies
\* every other character unchanged and in order.
C18_KeysWrapped ==
  norm_pc = "keys_quoted" => norm_once = keys_wrapped_tight(norm_in)

\* a text with a key after '{', a string after it, has been converted
C18_Witness ==
  /\ norm_pc = "keys_quoted"
  /\ key_starts(norm_in) # {}
  /\ \E p \in 1..Len(norm_in) : norm_in[p] \in {SQ, DQ}
  /\ norm_once # norm_in

\* the unquoted positions strictly between o and q that hold ch
unquoted_between(text, o, q, ch) ==
  LET st == string_state(text)
  IN {r \in (o + 1)..(q - 1) : ~st[r - 1].in /\ text[r] = ch}

\* the position of the ')' that matches the '(' at position o, counting
\* parentheses outside strings only; 0 when there is none
close_of(text, o) ==
  LET st == string_state(text)
      closes == {q \in (o + 1)..Len(text) :
                   /\ ~st[q - 1].in
                   /\ text[q] = ")"
                   /\ Cardinality(unquoted_between(text, o, q, "("))
                        = Cardinality(unquoted_between(text, o, q, ")"))}
  IN IF closes = {} THEN 0 ELSE least(closes)

\* p..d-1 is an identifier: a letter or underscore, then identifier characters
identifier_at(text, p, d) ==
  /\ p < d
  /\ text[p] \in Letters \cup {"_"}
  /\ \A q \in p..(d - 1) : ident_char(text[q])

\* the call wrappers Identifier.Identifier( outside strings: start of the
\* first identifier, position of '(' and of the matching ')' (0 when none)
call_wrappers(text) ==
  LET st == string_state(text)
      opens == {o \in 1..Len(text) : text[o] = "("}
      starts(o) ==
        {p \in 1..(o - 3) :
           /\ ~st[p - 1].in
           /\ p = 1 \/ ~ident_char(text[p - 1])
           /\ \E d \in (p + 1)..(o - 2) :
                /\ text[d] = "."
                /\ identifier_at(text, p, d)
                /\ identifier_at(text, d + 1, o)}
  IN UNION {{[p |-> p, o |-> o, c |-> close_of(text, o)] : p \in starts(o)} :
              o \in opens}

\* text without the characters at the positions in gone
without(text, gone) ==
  LET keep == {q \in 1..Len(text) : q \notin gone}
      RECURSIVE go(_)
      go(q) == IF q > Len(text) THEN <<>>
               ELSE IF q \in keep THEN <<text[q]>> \o go(q + 1) ELSE go(q + 1)
  IN go(1)

\* C19: every unquoted call wrapper Identifier.Identifier( ... ) with a
\* matching ')' in the input of strip_object_freeze, at top level or nested
\* in another wrapper's argument, leaves only its inner expression in the
\* output: its prefix and its closing parenthesis are gone.  Stated for the
\* inputs in which every wrapper has its matching ')'.
C19_EveryWrapperStripped ==
  (norm_pc = "stripped" /\ \A w \in call_wrappers(norm_in) : w.c # 0) =>
    norm_once = without(norm_in,
                  UNION {(w.p..w.o) \cup {w.c} : w \in call_wrappers(norm_in)})

\* two wrappers, one in the other's argument, both with their ')'
C19_Witness ==
  /\ norm_pc = "stripped"
  /\ \A w \in call_wrappers(norm_in) : w.c # 0
  /\ \E w, v \in call_wrappers(norm_in) : w.o < v.p /\ v.c < w.c

\* text with each Object.freeze( found outside strings and outside an
\* earlier wrapper's argument removed together with the ')' that matches
\* its '(' when parentheses inside strings are not counted; without such a
\* ')' only the prefix is removed
top_level_stripped(text) ==
  LET st == string_state(text)
      RECURSIVE go(_)
      go(p) ==
        IF p > Len(text) THEN <<>>
        ELSE IF ~st[p - 1].in /\ startswith(text, OBJECT_FREEZE, p)
          THEN LET o == p + Len(OBJECT_FREEZE) - 1
                   c == close_of(text, o)
               IN IF c = 0 THEN SubSeq(text, o + 1, Len(text))
                  ELSE SubSeq(text, o + 1, c - 1) \o go(c + 1)
          ELSE <<text[p]>> \o go(p + 1)
  IN go(1)

\* C20: while strip_object_freeze scans a wrapper's argument, parentheses
\* inside quoted strings (escaped quotes included) do not change the depth,
\* nested unquoted parentheses stay in the output, the only ')' dropped is
\* the one matching the wrapper's '(', and the text after it is processed as
\* outside the wrapper.
C20_MatchingSkipsStrings ==
  norm_pc = "stripped" => norm_once = top_level_stripped(norm_in)

\* a wrapper whose argument holds a parenthesis inside a string, closed by
\* its matching ')', with text after it
C20_Witness ==
  /\ norm_pc = "stripped"
  /\ startswith(norm_in, OBJECT_FREEZE, 1)
  /\ LET o == Len(OBJECT_FREEZE)
         c == close_of(norm_in, o)
     IN /\ c # 0
        /\ c < Len(norm_in)
        /\ \E q \in (o + 1)..(c - 1) :
             string_state(norm_in)[q - 1].in /\ norm_in[q] \in {"(", ")"}

\* the commas outside strings whose next character other than whitespace
\* is '}' or ']'
trailing_commas(text) ==
  LET st == string_state(text)
  IN {p \in 1..Len(text) :
        /\ ~st[p - 1].in
        /\ text[p] = ","
        /\ non_space_after(text, p) # {}
        /\ text[least(non_space_after(text, p))] \in {"}", "]"}}

\* C21: remove_trailing_commas deletes exactly the commas outside strings
\* whose next non-whitespace character is '}' or ']' and keeps everything
\* else in order, so that its output has no such comma, and {"a":1,} and
\* {"a":1} normalize to the same decodable value.
C21_TrailingCommas ==
  /\ norm_pc \in {"commas_removed", "decoded"} =>
       /\ norm_once = without(norm_in, trailing_commas(norm_in))
       /\ trailing_commas(norm_once) = {}
  /\ (norm_pc = "decoded" /\ norm_in \in {MEMBER_A \o <<",", "}">>, MEMBER_A \o <<"}">>}) =>
       /\ data.ok
       /\ data.val = VDict(<<Item(<<"a">>, VInt(1))>>)

\* the deletion half of C21 alone
C21_DeletesExactly ==
  norm_pc \in {"commas_removed", "decoded"} =>
    norm_once = without(norm_in, trailing_commas(norm_in))

\* the text {"a":1,} has been normalized and decoded
C21_Witness ==
  /\ norm_pc = "decoded"
  /\ norm_in = MEMBER_A \o <<",", "}">>
  /\ norm_once = MEMBER_A \o <<"}">>
  /\ data.ok

\* the quoted strings of text in order, each from its opening quote to its
\* closing quote (to the end of text when it is not closed)
strings_of(text) ==
  LET st == string_state(text)
      starts == {p \in 1..Len(text) : ~st[p - 1].in /\ st[p].in}
      end(p) == LET closed == {q \in (p + 1)..Len(text) : ~st[q].in}
                IN IF closed = {} THEN Len(text) ELSE least(closed)
      nth(k) == CHOOSE p \in starts : Cardinality({q \in starts : q < p}) = k - 1
  IN [k \in 1..Cardinality(starts) |-> SubSeq(text, nth(k), end(nth(k)))]

\* a is b with some elements left out
RECURSIVE is_subsequence(_, _)
is_subsequence(a, b) ==
  IF a = <<>> THEN TRUE
  ELSE IF b = <<>> THEN FALSE
  ELSE IF Head(a) = Head(b) THEN is_subsequence(Tail(a), Tail(b))
  ELSE is_subsequence(a, Tail(b))

\* C22: key quoting, wrapper stripping and trailing-comma removal copy every
\* quoted string unchanged whatever it holds (the key pass only adds the
\* strings of the keys it quotes), and quote conversion copies every
\* double-quoted string, escapes included, unchanged.
C22_StringsUntouched ==
  LET before_pass == strings_of(norm_in)
      after_pass == strings_of(norm_once)
  IN /\ norm_pc \in {"stripped", "commas_removed"} => after_pass = before_pass
     /\ norm_pc = "keys_quoted" =>
          /\ is_subsequence(before_pass, after_pass)
          /\ Len(after_pass) = Len(before_pass) + Cardinality(key_starts(norm_in))
     /\ norm_pc = "converted" =>
          /\ Len(after_pass) = Len(before_pass)
          /\ \A k \in 1..Len(before_pass) :
               Head(before_pass[k]) = DQ => after_pass[k] = before_pass[k]

\* a pass has run on a text with a closed string that holds a structural
\* character, and has changed the text outside it
C22_Witness ==
  /\ norm_pc \in {"stripped", "commas_removed", "keys_quoted", "converted"}
  /\ norm_once # norm_in
  /\ \E k \in 1..Len(strings_of(norm_in)) :
       LET str == strings_of(norm_in)[k]
       IN /\ Len(str) >= 3
          /\ str[Len(str)] = Head(str)
          /\ \E q \in 2..(Len(str) - 1) : str[q] \in {"{", ",", ":", "(", ")"}

\* C23: the quote/escape tracking of the locator and of the four passes,
\* run on one text from the start, agree wherever two of them read the same
\* position: on being inside a string, on the opening quote and on the
\* character being escaped.
C23_ScannersAgree ==
  \A v, w \in visited :
    v.pos = w.pos => (v.in = w.in /\ v.q = w.q /\ v.esc = w.esc)

\* all five loops have read an escaped character inside a string, one of
\* them from within a wrapper's argument
C23_Witness ==
  /\ norm_pc = "scanned"
  /\ \E p \in 1..Len(norm_in) :
       /\ \A sc \in {"keys", "quotes", "wrappers", "commas"} :
            \E v \in visited : v.scanner = sc /\ v.pos = p /\ v.in /\ v.esc
       /\ \E o \in 1..(p - 1) :
            startswith(norm_in, OBJECT_FREEZE, o) /\ ~string_state(norm_in)[o - 1].in
  /\ \E v \in visited : v.scanner = "locator" /\ v.in /\ v.esc

keyed(list, k) == {n \in 1..Len(list) : pk(list[n]) = k}

\* C24: after a merge of a refresh cycle, a refreshed field of a row whose
\* key was in the list before holds a value that a row of that key had
\* before, or a non-blank value that an incoming row of that key brought: a
\* blank incoming value never replaces an existing one
C24_BlankNeverReplaces ==
  refresh_pc = "meta" =>
    \A n \in 1..Len(refresh_merged) :
      LET m == refresh_merged[n]
          k == pk(m)
      IN (k # NoKey /\ keyed(refresh_before, k) # {}) =>
           \A f \in REFRESH_FIELDS :
             get(m, f) \in
               {get(refresh_before[i], f) : i \in keyed(refresh_before, k)}
                 \cup {refresh_after[j][f] :
                         j \in {i \in keyed(refresh_after, k) :
                                  f \in DOMAIN refresh_after[i]
                                    /\ ~is_blank(refresh_after[i][f])}}

\* a merge has met a blank incoming value for a field whose existing value
\* is not blank
C24_Witness ==
  /\ refresh_pc = "meta"
  /\ \E i \in 1..Len(refresh_before), j \in 1..Len(refresh_after) :
       /\ pk(refresh_before[i]) # NoKey
       /\ pk(refresh_before[i]) = pk(refresh_after[j])
       /\ ~is_blank(get(refresh_before[i], "actual"))
       /\ is_blank(get(refresh_after[j], "actual"))

\* C25: once a refresh cycle has loaded AFTER, AFTER is the record set that
\* the step-03 run of that cycle wrote to its events file
C25_AfterIsExtracted ==
  refresh_pc \in {"merge", "meta", "done"} =>
    /\ out_events_json.kind = "list"
    /\ refresh_after = out_events_json.rows

\* a refresh cycle has loaded AFTER after a step 03 that extracted records
\* and wrote them
C25_Witness ==
  /\ refresh_pc = "merge"
  /\ pc = "exited"
  /\ err = ""
  /\ flat # <<>>
  /\ out_events_json = StoreFile(rows)

\* AFTER is what the file held when BEFORE was loaded
C25_AfterIsBefore ==
  refresh_pc \in {"merge", "meta", "done"} => refresh_after = refresh_before

overlap(w1, w2) == w2.start_epoch <= w1.end_epoch /\ w1.start_epoch <= w2.start_epoch

\* C26: no two windows of the output that have the same currency overlap in
\* time
C26_NoOverlapPerCurrency ==
  risk_pc = "done" =>
    LET out == risk_out.windows.windows
    IN \A i, j \in 1..Len(out) :
         (i # j /\ out[i].currency = out[j].currency) => ~overlap(out[i], out[j])

\* an output made from two overlapping events of one currency with a window
\* of the other currency between them in start-time order
C26_Witness ==
  /\ risk_pc = "done"
  /\ in_events.rows =
       <<risk_event(VInt(1), 3600, VStr(<<"U","S","D">>), VStr(IMPACT_HIGH)),
         risk_event(VInt(1), 3700, VStr(<<"E","U","R">>), VStr(IMPACT_HIGH)),
         risk_event(VInt(1), 5400, VStr(<<"U","S","D">>), VStr(IMPACT_MEDIUM))>>

\* adjacent windows of the sorted list never overlap when they have one
\* currency
C26_NoAdjacentOverlap ==
  risk_pc = "done" =>
    LET out == risk_out.windows.windows
    IN \A i \in 1..Len(out) - 1 :
         out[i].currency = out[i + 1].currency => ~overlap(out[i], out[i + 1])

\* C27: in the persisted store, the impact_score of each record is the
\* table value of that record's impact label
C27_ScoreMatchesImpact ==
  out_events_json.kind = "list" =>
    \A n \in 1..Len(out_events_json.rows) :
      LET row == out_events_json.rows[n]
      IN get(row, "impact_score") = VInt(impact_score_of(get(row, "impact").s))

\* a second run has merged a record without a label into a stored record
\* that has one
C27_Witness ==
  /\ runs = 2
  /\ pc = "exited"
  /\ \E n \in 1..Len(flat), m \in 1..Len(out_events_json.rows) :
       /\ key_of(flat[n]) = key_of(out_events_json.rows[m])
       /\ flat[n]["impact"] = VStr(<<>>)
       /\ out_events_json.rows[m]["impact"] # VStr(<<>>)

\* the rows the flattener makes are consistent
C27_FlattenedConsistent ==
  \A n \in 1..Len(flat) :
    flat[n]["impact_score"] = VInt(impact_score_of(flat[n]["impact"].s))

\* the identity keys of the records a store file holds; a file that does not
\* decode to a list holds none
store_keys(file) ==
  IF file.kind = "list"
  THEN {key_of(file.rows[n]) : n \in 1..Len(file.rows)} \ {NoKey}
  ELSE {}

\* C28: when a run has ended (exited or crashed) the keys of the persisted
\* store include the keys it had when the run started, and after a run that
\* succeeded they are those keys together with the keys of the run's
\* flattened records
C28_KeysNeverLost ==
  pc \in {"exited", "crashed"} =>
    /\ store_keys(before.json) \subseteq store_keys(out_events_json)
    /\ (pc = "exited" /\ err = "") =>
         store_keys(out_events_json)
           = store_keys(before.json) \cup store_keys(StoreFile(flat))

\* a run that started on a store with a record has crashed while the store
\* file was being written
C28_Witness ==
  /\ pc = "crashed"
  /\ store_keys(before.json) # {}
  /\ out_events_json.kind \in {"empty", "partial"}

\* the same for the runs that exit, crashed runs left out
C28_KeysKeptByEndedRuns ==
  pc = "exited" =>
    /\ store_keys(before.json) \subseteq store_keys(out_events_json)
    /\ err = "" =>
         store_keys(out_events_json)
           = store_keys(before.json) \cup store_keys(StoreFile(flat))

\* the names of the steps that the configuration, read as a mapping, and the
\* defaults enable, in the order of DEFAULT_STEPS
enabled_steps(cfg) ==
  LET on(n) ==
        IF cfg.exists /\ \E m \in 1..Len(cfg.steps) : cfg.steps[m].name = DEFAULT_STEPS[n].name
        THEN \E m \in 1..Len(cfg.steps) :
               cfg.steps[m].name = DEFAULT_STEPS[n].name /\ truthy(cfg.steps[m].value)
        ELSE DEFAULT_STEPS[n].default
      picked == SelectSeq([n \in 1..Len(DEFAULT_STEPS) |-> n], on)
  IN [n \in 1..Len(picked) |-> DEFAULT_STEPS[picked[n]].name]

\* C29: when the pipeline has exited, the steps it ran are the enabled steps
\* in the order of DEFAULT_STEPS, up to and including the first that failed
\* (all of them if none failed), and the exit status is not 0 exactly when
\* a step failed
C29_HaltsAtFirstFailure ==
  pipe.pc = "exited" =>
    LET enabled == enabled_steps(pipe_cfg)
        failures == {n \in 1..Len(pipe_ran) : pipe_ran[n].failed}
    IN /\ Len(pipe_ran) <= Len(enabled)
       /\ \A n \in 1..Len(pipe_ran) : pipe_ran[n].name = enabled[n]
       /\ \A n \in failures : n = Len(pipe_ran)
       /\ failures = {} => Len(pipe_ran) = Len(enabled)
       /\ (pipe.exit_code # 0) <=> (failures # {})

\* the pipeline has exited after a step failed, under a configuration that
\* names the steps in another order than DEFAULT_STEPS and enables steps
\* after the failed one
C29_Witness ==
  /\ pipe.pc = "exited"
  /\ Len(pipe_cfg.steps) = Len(DEFAULT_STEPS)
  /\ pipe_ran # <<>>
  /\ pipe_ran[Len(pipe_ran)].failed
  /\ Len(pipe_ran) < Len(enabled_steps(pipe_cfg))

\* the same with a step counted as failed when its exit status is not 0
C29_HaltsAtFirstBadStatus ==
  pipe.pc = "exited" =>
    LET enabled == enabled_steps(pipe_cfg)
        failures == {n \in 1..Len(pipe_ran) : pipe_ran[n].exit_code # 0}
    IN /\ Len(pipe_ran) <= Len(enabled)
       /\ \A n \in 1..Len(pipe_ran) : pipe_ran[n].name = enabled[n]
       /\ \A n \in failures : n = Len(pipe_ran)
       /\ failures = {} => Len(pipe_ran) = Len(enabled)
       /\ (pipe.exit_code # 0) <=> (failures # {})

\* the calls of fn that retry may make: the first attempts of them
attempted == 1..retry_state.attempts

\* C30: when retry has ended, fn was called at most attempts times; a value
\* returned is that of the first call that succeeds, which is the last call
\* made; an exception leaves retry exactly when all attempts calls fail, and
\* it is that of the last call; there is one sleep after each call but the
\* last one made, and none after the final attempt
C30_BoundedRetry ==
  retry_state.pc \in {"returned", "raised"} =>
    LET succeeding == {n \in attempted : retry_fn[n].ok}
    IN /\ retry_state.calls <= retry_state.attempts
       /\ retry_state.pc = "returned" =>
            /\ succeeding # {}
            /\ retry_state.calls \in succeeding
            /\ \A n \in succeeding : retry_state.calls <= n
            /\ retry_state.returned = retry_fn[retry_state.calls].value
       /\ (retry_state.pc = "raised") <=> (succeeding = {})
       /\ retry_state.pc = "raised" =>
            /\ retry_state.calls = retry_state.attempts
            /\ retry_state.calls >= 1
            /\ retry_state.raised = retry_fn[retry_state.calls].err
       /\ {retry_state.sleeps[n].after_call : n \in 1..Len(retry_state.sleeps)}
            = 1..(retry_state.calls - 1)
       /\ Len(retry_state.sleeps) = IF retry_state.calls = 0 THEN 0
                                    ELSE retry_state.calls - 1

\* retry has ended with an exception after two or more failed attempts
C30_Witness ==
  /\ retry_state.pc = "raised"
  /\ retry_state.calls >= 2

\* the same for one attempt or more
C30_BoundedRetryFromOne ==
  retry_state.attempts >= 1 => C30_BoundedRetry

====
